---- MODULE Spec2Model ----
(***************************************************************************)
(* Lifecycle and entitlement engine of the job-marketplace backend:        *)
(* job postings, applications and students in the entity store, and the    *)
(* request handlers of the student, company and admin controllers.         *)
(*                                                                         *)
(* Every handler is a sequence of store operations separated by awaits.    *)
(* One store operation is one step of the handler (HandlerStep).  Spec     *)
(* serves requests one at a time (each handler runs to completion);        *)
(* ConcSpec interleaves the steps of concurrent student requests.          *)
(***************************************************************************)
EXTENDS Integers, FiniteSets, Sequences, Bags, TLC

VARIABLES jobs, apps, students, requests, subs, config, now,
          companies, profileCache, preferences, emailEnv

vars == <<jobs, apps, students, requests, subs, config, now,
          companies, profileCache, preferences, emailEnv>>

(***************************************************************************)
(* Universe of the model.                                                  *)
(***************************************************************************)
NULL == "null"
DATE == "date"          \* the value of new Date(): only null / not null is kept
ADMIN == "admin"

Students == {"s1", "s2"}
Companies == {"c1", "c2"}
AllJobs == {"j1", "j2", "j3"}
SeqJobs == {"j1", "j2"}         \* job ids handed out by createJob under Spec
ConcStudents == {"s1"}          \* students sending requests under ConcSpec

\* ObjectIds are opaque: a job id is named after the company that created it.
Owner(j) == IF j = "j2" THEN "c2" ELSE "c1"

\* Rows the store can hold for one (studentId, jobPostingId) pair when nothing
\* forbids duplicates; an application _id is named <<student, job, copy>>.
MaxCopies == 2
\* Requests in flight at once under ConcSpec.
MaxInFlight == 2
\* Application rows the store holds under Spec.
MaxRows == 2
\* Statuses the admin sends to updateJob under Spec.
SeqAdminJobStatuses == {"approved", "closed"}

AppIds == Students \X AllJobs \X (1..MaxCopies)
NoApp == <<"-", "-", 0>>
NoJob == "-"

JOB_STATUSES == {"draft", "pending", "approved", "rejected", "unpublished", "closed"}
ApplicationStatusEnum == {"pending", "reviewed", "hired", "rejected", "withdrawn"}
SUBSCRIPTION_TIERS == {"free", "paid"}
OnlyWithdrawnNotCounted == {"withdrawn"}
NON_COUNTABLE_STATUSES == {"withdrawn", "rejected"}
JobClosedReason == "Job posting has been closed"
AdminReason == "reason"         \* a rejection reason typed by an admin
HardCodedLimit == 2

\* ActiveSubscription, AvailableService, SystemConfig
SUBSCRIPTION_STATUSES == {"active", "expired", "cancelled", "pending"}
DEFAULT_FREE_TIER_MAX_APPLICATIONS == 2
SUBSCRIPTION_GRACE_PERIOD_DAYS == 3
\* the number Infinity: above every count and every limit of the model
Infinity == 1000
\* Subscriptions the store can hold; an ActiveSubscription _id is "sub1", "sub2", ...
MaxSubs == 2
SubOrder == <<"sub1", "sub2", "sub3">>
SubIds == {SubOrder[i] : i \in 1..MaxSubs}
\* Days the clock runs for (dates are whole days since the start).
MaxNow == 5
\* Plans (AvailableService documents, tier paid): maxApplications is null
\* (the empty set here) for an unlimited plan, a number >= 1 otherwise.
Plans == {"pro", "basic"}
BasicPlanMaxApplications == 1
PlanMaxApplications == [pro |-> {}, basic |-> {BasicPlanMaxApplications}]
\* durationDays / extendByDays a student sends
DurationDays == {1}
ExtendByDays == {2}
\* Extensions are followed while the endDate they write is a day of the model.
LastEndDate == MaxNow + 2
\* maxApplications the admin sets for the free tier
FreeTierInputs == {1, 3}

(***************************************************************************)
(* The entity store as a value: db.jobs, db.apps, db.students.             *)
(***************************************************************************)
DB == [jobs |-> jobs, apps |-> apps, students |-> students, subs |-> subs,
       config |-> config, now |-> now,
       companies |-> companies, profileCache |-> profileCache,
       preferences |-> preferences, emailEnv |-> emailEnv]

(***************************************************************************)
(* The content of a job posting.  A string is kept as its length, a job    *)
(* type as its place in JOB_TYPES, a deadline as its day; NULLV is null.   *)
(* In a request body a field is a record: raw is the value as sent (the    *)
(* length before trim()), len the value after trim(); UNDEFINED is a field *)
(* that is not in the body.                                                *)
(***************************************************************************)
NULLV == 0 - 1
UNDEFINED == 0 - 2
Fields == <<"title", "description", "requirements", "location", "jobType",
            "salaryRange", "deadline">>
FieldSet == {Fields[i] : i \in 1..Len(Fields)}
StringFields == {"title", "description", "requirements", "location", "salaryRange"}
\* createJobSchema: .min() of the strings
MinLength == [title |-> 5, description |-> 50, requirements |-> 1, location |-> 2,
              salaryRange |-> 1]
FullTime == 1                   \* 'Full-time', the first of JOB_TYPES
\* a deadline after every day of the model
LastDeadline == MaxNow + 1

Absent == [raw |-> UNDEFINED, len |-> UNDEFINED]
Value(n) == [raw |-> n, len |-> n]
\* a string of raw characters of which len are left by trim()
Padded(raw, len) == [raw |-> raw, len |-> len]

NoBody == [f \in FieldSet |-> Absent]
FullBody ==
  [title |-> Value(5), description |-> Value(50), requirements |-> Value(1),
   location |-> Value(2), jobType |-> Value(FullTime), salaryRange |-> Value(1),
   deadline |-> Value(LastDeadline)]
FullContent == [f \in FieldSet |-> FullBody[f].len]

JobDoc(c, st) ==
  [companyId |-> c, status |-> st, approvedAt |-> NULL, rejectionReason |-> NULL,
   content |-> FullContent]

ApplicationDoc(s, j) ==
  [studentId |-> s, jobPostingId |-> j, status |-> "pending",
   rejectionReason |-> NULL, reviewedAt |-> NULL]

\* Application.countDocuments({studentId, status: {$nin: NON_COUNTABLE_STATUSES}})
getActiveApplicationCount(appsNow, s) ==
  Cardinality({a \in DOMAIN appsNow :
                 /\ appsNow[a].studentId = s
                 /\ appsNow[a].status \notin NON_COUNTABLE_STATUSES})

\* the same query, written inline in applyToJob
activeApplications(appsNow, s) ==
  Cardinality({a \in DOMAIN appsNow :
                 /\ appsNow[a].studentId = s
                 /\ appsNow[a].status \notin {"withdrawn", "rejected"}})

RowsOf(appsNow, s, j) ==
  {a \in DOMAIN appsNow : appsNow[a].studentId = s /\ appsNow[a].jobPostingId = j}

\* Application.findOne({studentId, jobPostingId}): the first matching row
FindOneApplication(appsNow, s, j) ==
  IF RowsOf(appsNow, s, j) = {} THEN NoApp
  ELSE CHOOSE a \in RowsOf(appsNow, s, j) : \A b \in RowsOf(appsNow, s, j) : a[3] <= b[3]

NoUniqueIndex(appsNow, s, j) == TRUE

\* the unique index {studentId: 1, jobPostingId: 1} admits an insert
UniqueIndexAdmits(appsNow, s, j) == RowsOf(appsNow, s, j) = {}

FreeIds(appsNow, s, j) == {a \in AppIds : a[1] = s /\ a[2] = j /\ a \notin DOMAIN appsNow}

FreshId(appsNow, s, j) ==
  CHOOSE a \in FreeIds(appsNow, s, j) : \A b \in FreeIds(appsNow, s, j) : a[3] <= b[3]

RejectPendingOnly(appsNow, j) ==
  [a \in DOMAIN appsNow |->
     IF appsNow[a].jobPostingId = j /\ appsNow[a].status \in {"pending"}
     THEN [appsNow[a] EXCEPT !.status = "rejected", !.rejectionReason = JobClosedReason]
     ELSE appsNow[a]]

RejectOpenOnEveryJob(appsNow, j) ==
  [a \in DOMAIN appsNow |->
     IF appsNow[a].status \in {"pending", "reviewed"}
     THEN [appsNow[a] EXCEPT !.status = "rejected", !.rejectionReason = JobClosedReason]
     ELSE appsNow[a]]

\* Application.updateMany({jobPostingId, status: {$in: [pending, reviewed]}},
\*                        {$set: {status: rejected, rejectionReason: ...}})
RejectOpenApplications(appsNow, j) ==
  [a \in DOMAIN appsNow |->
     IF appsNow[a].jobPostingId = j /\ appsNow[a].status \in {"pending", "reviewed"}
     THEN [appsNow[a] EXCEPT !.status = "rejected", !.rejectionReason = JobClosedReason]
     ELSE appsNow[a]]

(***************************************************************************)
(* Requests.  who: the authenticated user; j, a, status, reason, valid:    *)
(* the request's parameters and body (valid: the body passes the schema    *)
(* and field checks of the handler); pc: the next store operation;         *)
(* tier, count, existing: the handler's local variables (student's tier,   *)
(* activeApplications, existingApp); resp: the response.  raced records,   *)
(* for an applyToJob that has looked its existing application up, that     *)
(* another applyToJob of the same student for the same job was answered    *)
(* 201 since.  plan, days: the body of a subscription request; sub, seen,  *)
(* newEnd: locals of the subscription handlers (the subscription's id, the *)
(* document as it was read, the endDate computed); result: the value a     *)
(* service function returns.                                               *)
(***************************************************************************)
NoResult ==
  [canApply |-> FALSE, reason |-> "-", applicationsUsed |-> 0, applicationLimit |-> 0,
   tier |-> "-", status |-> "-", isActive |-> FALSE, inGracePeriod |-> FALSE,
   subscription |-> NULL]

\* what the provider answers to one messages.create: ok, or an error whose
\* status is 0 when the error carries none (a network error)
Ok == [ok |-> TRUE, status |-> 0]
Failure(status) == [ok |-> FALSE, status |-> status]

\* Company.findOne found nothing
NoCompany == [status |-> "-", profile |-> "-"]

\* what sendEmail resolves to, or the error it rejects with
NoMail ==
  [skipped |-> FALSE, reason |-> "-", success |-> FALSE, fallback |-> FALSE,
   thrown |-> FALSE, error |-> 0]

\* every company approved, nothing cached, no preference stored, email on
ServicesInit ==
  /\ companies = [c \in Companies |-> [status |-> "approved", profile |-> "p0"]]
  /\ profileCache = <<>>
  /\ preferences = <<>>
  /\ emailEnv = [enabled |-> TRUE, client |-> TRUE, baseUrlSet |-> FALSE]

NoSeen == [studentId |-> "-", serviceId |-> "-", endDate |-> 0, status |-> "-"]

Request(op, who, j, a, status, reason, valid) ==
  [op |-> op, who |-> who, j |-> j, a |-> a, status |-> status, reason |-> reason,
   valid |-> valid, pc |-> "start", resp |-> "-", tier |-> "-", count |-> 0,
   existing |-> NoApp, raced |-> FALSE,
   plan |-> "-", days |-> 0, sub |-> NULL, seen |-> NoSeen, newEnd |-> 0,
   result |-> NoResult, body |-> NoBody,
   previousStatus |-> "-", fails |-> {}, sent |-> {},
   emailType |-> NULL, outcome |-> Ok, attempt |-> 0, calls |-> 0, tries |-> <<>>,
   retried |-> <<>>, mail |-> NoMail,
   companyId |-> "-", profile |-> "-", cached |-> FALSE, company |-> NoCompany]

\* a company job request with content fields in its body
JobRequest(op, who, j, status, body) ==
  [Request(op, who, j, NoApp, status, NULL, TRUE) EXCEPT !.body = body]

\* a subscription request: days = 0 and status = "-" stand for undefined
SubscriptionRequest(op, who, plan, days, status) ==
  [Request(op, who, NoJob, NoApp, status, NULL, TRUE) EXCEPT !.plan = plan, !.days = days]

Goto(r, pc) == [r EXCEPT !.pc = pc]
Respond(r, resp) == [r EXCEPT !.pc = "done", !.resp = resp]
Out(db, r) == [db |-> db, req |-> r]

(***************************************************************************)
(* Side effects.  A handler dispatches them after its last write and after *)
(* res.json: an effect is <<channel, name>>, and r.fails holds the         *)
(* channels that fail while this request is served.                        *)
(***************************************************************************)
Channels == {"email", "notification"}

ApplicationSubmitted ==
  {<<"notification", "application_submitted">>, <<"email", "submitted">>}
ApplicationApproved ==
  {<<"email", "approved">>, <<"notification", "application_approved">>,
   <<"notification", "application_received">>}
ApplicationRejected ==
  {<<"email", "rejected">>, <<"notification", "application_rejected">>}
ApplicationHired == {<<"email", "hired">>, <<"notification", "application_hired">>}
JobApproved == {<<"notification", "job_approved">>}

\* sendEmail rejects and the controller's .catch logs it
EmailDelivered(r) == "email" \notin r.fails

\* createNotification catches the error, logs it and resolves to null
NotificationCreated(r) == "notification" \notin r.fails

Delivered(r, e) ==
  IF e[1] = "email" THEN EmailDelivered(r) ELSE NotificationCreated(r)

DispatchRethrows(r, effects) ==
  IF \A e \in effects : Delivered(r, e)
  THEN [r EXCEPT !.sent = effects]
  ELSE [r EXCEPT !.sent = {e \in effects : Delivered(r, e)}, !.resp = "500"]

\* the fire-and-forget calls that follow res.json
Dispatch(r, effects) == [r EXCEPT !.sent = {e \in effects : Delivered(r, e)}]

(***************************************************************************)
(* The public company profile and its in-process cache                     *)
(* (companyProfileService, companyController, adminController).  A profile *)
(* is kept as one value; time is in days, so the 5 minutes of the cache    *)
(* are less than one unit: an entry expires when the day has changed.      *)
(***************************************************************************)
PUBLIC_PROFILE_CACHE_TTL == 0

Without(f, x) == [y \in DOMAIN f \ {x} |-> f[y]]

\* the entry's data, and the cache with the entry deleted when it has expired
getCachedPublicCompanyProfile(cache, companyId, t) ==
  IF companyId \notin DOMAIN cache THEN [cache |-> cache, data |-> NULL]
  ELSE IF cache[companyId].expiresAt < t
  THEN [cache |-> Without(cache, companyId), data |-> NULL]
  ELSE [cache |-> cache, data |-> cache[companyId].data]

setCachedPublicCompanyProfile(cache, companyId, profile, t) ==
  [y \in DOMAIN cache \cup {companyId} |->
     IF y = companyId THEN [data |-> profile, expiresAt |-> t + PUBLIC_PROFILE_CACHE_TTL]
     ELSE cache[y]]

invalidatePublicCompanyProfileCache(cache, companyId) == Without(cache, companyId)

getPublicProfile(db, r) ==
  CASE r.pc = "start" ->            \* the cache lookup
         LET got == getCachedPublicCompanyProfile(db.profileCache, r.companyId, db.now) IN
         IF got.data # NULL
         THEN Out(db, Respond([r EXCEPT !.cached = TRUE, !.profile = got.data], "200"))
         ELSE Out([db EXCEPT !.profileCache = got.cache], Goto(r, "find"))
    [] r.pc = "find" ->             \* Company.findOne({_id, status: 'approved'})
         IF /\ r.companyId \in DOMAIN db.companies
            /\ db.companies[r.companyId].status = "approved"
         THEN Out(db, [Goto(r, "fill") EXCEPT !.company = db.companies[r.companyId]])
         ELSE Out(db, Goto(r, "fill"))
    [] r.pc = "fill" ->             \* after the await: fill the cache, answer
         IF r.company = NoCompany
         THEN Out(db, Respond(r, "404 company profile"))
         ELSE Out([db EXCEPT !.profileCache =
                      setCachedPublicCompanyProfile(@, r.companyId, r.company.profile, db.now)],
                  Respond([r EXCEPT !.profile = r.company.profile], "200"))

\* companyController.updateProfile; uploadLogo and the admin's
\* updateCompanyProfileAdmin save and invalidate in the same way
updateProfile(db, r) ==
  CASE r.pc = "start" ->            \* Company.findOne({userId})
         IF ~r.valid
         THEN Out(db, Respond(r, "400 validation"))
         ELSE IF r.who \notin DOMAIN db.companies
         THEN Out(db, Respond(r, "404 company"))
         ELSE Out(db, Goto(r, "save"))
    [] r.pc = "save" ->             \* company.save()
         Out([db EXCEPT !.companies[r.who].profile = r.profile], Goto(r, "invalidate"))
    [] r.pc = "invalidate" ->       \* after the await: invalidate, answer
         Out([db EXCEPT !.profileCache = invalidatePublicCompanyProfileCache(@, r.who)],
             Respond(r, "200"))

\* adminController.updateCompany (its emails and notifications are left out)
updateCompany(db, r) ==
  CASE r.pc = "start" ->            \* Company.findById
         IF ~r.valid
         THEN Out(db, Respond(r, "400 validation"))
         ELSE IF r.companyId \notin DOMAIN db.companies
         THEN Out(db, Respond(r, "404 company"))
         ELSE Out(db, Goto(r, "write"))
    [] r.pc = "write" ->            \* Company.findByIdAndUpdate({status, ...})
         Out([db EXCEPT !.companies[r.companyId].status = r.status], Respond(r, "200"))

(***************************************************************************)
(* emailService.sendEmail, with notificationPreferenceService and          *)
(* executeWithRetry.  r.who is options.userId, r.emailType                 *)
(* options.emailType; r.outcome is what the provider answers to the call   *)
(* of this step; "preferences" in r.fails: the preference read throws.     *)
(***************************************************************************)
EMAIL == "email"
MAX_RETRIES == 3
NonRetryable == {400, 401, 403, 404, 422}

RetriesEveryError(error) == TRUE

\* status && [400, 401, 403, 404, 422].includes(status) ? false : true
shouldRetryError(error) == ~(error.status # 0 /\ error.status \in NonRetryable)

PreferenceKey(userId, emailType, channel) == <<userId, emailType, channel>>

\* NotificationPreference.findOne(...): true unless it finds optedOut true
shouldSendEmail(db, r) ==
  IF r.who = NULL \/ r.emailType = NULL THEN TRUE
  ELSE IF "preferences" \in r.fails THEN TRUE
  ELSE LET key == PreferenceKey(r.who, r.emailType, EMAIL) IN
       IF key \notin DOMAIN db.preferences THEN TRUE
       ELSE db.preferences[key] # TRUE

\* getClient(), then the first executeWithRetry
ToClient(db, r) ==
  IF ~db.emailEnv.client
  THEN Respond([r EXCEPT !.mail.thrown = TRUE], "thrown")
  ELSE [Goto(r, "deliver") EXCEPT !.attempt = 1]

\* fn() has been called once more and has answered r.outcome
Called(r) == [r EXCEPT !.tries = Append(@, r.outcome), !.calls = @ + 1]

\* this executeWithRetry has returned or thrown
Returned(r) == [r EXCEPT !.retried = Append(@, r.tries), !.tries = <<>>, !.attempt = 1]

Rejects(r) ==
  Respond([r EXCEPT !.mail.thrown = TRUE, !.mail.error = r.outcome.status], "thrown")

\* getFallbackMailgunBaseUrl(...) and buildMailgunClient(...) both give a value
HasFallback(db) == ~db.emailEnv.baseUrlSet /\ db.emailEnv.client

sendEmail(db, r) ==
  CASE r.pc = "start" ->            \* the task scheduled by setImmediate
         IF ~db.emailEnv.enabled
         THEN Out(db, Respond([r EXCEPT !.mail.skipped = TRUE], "skipped"))
         ELSE IF r.who # NULL /\ r.emailType # NULL
         THEN Out(db, Goto(r, "preference"))
         ELSE Out(db, ToClient(db, r))
    [] r.pc = "preference" ->       \* await shouldSendEmail
         IF ~shouldSendEmail(db, r)
         THEN Out(db, Respond([r EXCEPT !.mail.skipped = TRUE,
                                        !.mail.reason = "opted_out"], "skipped"))
         ELSE Out(db, ToClient(db, r))
    [] r.pc = "deliver" ->          \* executeWithRetry: await fn()
         LET c == Called(r) IN
         IF r.outcome.ok
         THEN Out(db, Respond([Returned(c) EXCEPT !.mail.success = TRUE], "sent"))
         ELSE IF shouldRetryError(r.outcome) /\ r.attempt < MAX_RETRIES
         THEN Out(db, [c EXCEPT !.attempt = @ + 1])
         ELSE IF r.outcome.status \in {401, 403} /\ HasFallback(db)
         THEN Out(db, Goto(Returned(c), "fallback"))
         ELSE Out(db, Rejects(Returned(c)))
    [] r.pc = "fallback" ->         \* executeWithRetry on the fallback client
         LET c == Called(r) IN
         IF r.outcome.ok
         THEN Out(db, Respond([Returned(c) EXCEPT !.mail.success = TRUE,
                                                  !.mail.fallback = TRUE], "sent"))
         ELSE IF shouldRetryError(r.outcome) /\ r.attempt < MAX_RETRIES
         THEN Out(db, [c EXCEPT !.attempt = @ + 1])
         ELSE Out(db, Rejects(Returned(c)))

(***************************************************************************)
(* studentController.applyToJob                                            *)
(***************************************************************************)
NeverHired(studentDoc) == FALSE

\* student.isHired, as applyToJob and canApply test it
IsHired(studentDoc) == studentDoc.isHired

RejectedCountsAsWithdrawn(status) == status \notin {"withdrawn", "rejected"}

\* existingApp.status !== 'withdrawn'
AlreadyApplied(status) == status # "withdrawn"

ReapplyKeepsReviewedAt(doc) ==
  [doc EXCEPT !.status = "pending", !.rejectionReason = NULL]

\* $set of the re-application (createdAt is not kept in the model)
ReapplyPatch(doc) ==
  [doc EXCEPT !.status = "pending", !.rejectionReason = NULL, !.reviewedAt = NULL]

applyToJob(db, r) ==
  LET s == r.who
      j == r.j
  IN
  CASE r.pc = "start" ->            \* Student.findOne
         IF ~r.valid
         THEN Out(db, Respond(r, "400 validation"))
         ELSE IF IsHired(db.students[s])
         THEN Out(db, Respond(r, "403 hired"))
         ELSE Out(db, [Goto(r, "count") EXCEPT !.tier = db.students[s].subscriptionTier])
    [] r.pc = "count" ->            \* Application.countDocuments
         LET n == activeApplications(db.apps, s) IN
         IF r.tier # "paid" /\ n >= HardCodedLimit
         THEN Out(db, Respond([r EXCEPT !.count = n], "403 limit"))
         ELSE Out(db, [Goto(r, "existing") EXCEPT !.count = n])
    [] r.pc = "existing" ->         \* Application.findOne
         LET e == FindOneApplication(db.apps, s, j) IN
         IF e # NoApp /\ AlreadyApplied(db.apps[e].status)
         THEN Out(db, Respond(r, "400 already applied"))
         ELSE Out(db, [Goto(r, "job") EXCEPT !.existing = e])
    [] r.pc = "job" ->              \* JobPosting.findOne({_id, status: approved})
         IF j \in DOMAIN db.jobs /\ db.jobs[j].status = "approved"
         THEN Out(db, Goto(r, "write"))
         ELSE Out(db, Respond(r, "404 job"))
    [] r.pc = "write" ->
         IF r.existing # NoApp
         THEN                       \* Application.findByIdAndUpdate(existingApp._id)
           Out([db EXCEPT !.apps[r.existing] = ReapplyPatch(@)],
               Dispatch(Respond(r, "201"), ApplicationSubmitted))
         ELSE                       \* Application.create
           IF UniqueIndexAdmits(db.apps, s, j)
           THEN Out([db EXCEPT !.apps = @ @@ (FreshId(db.apps, s, j) :> ApplicationDoc(s, j))],
                    Dispatch(Respond(r, "201"), ApplicationSubmitted))
           ELSE Out(db, Respond(r, "500"))

(***************************************************************************)
(* studentController.withdrawApplication                                   *)
(***************************************************************************)
withdrawsRejected(db, r) ==
  CASE r.pc = "start" ->
         IF r.a \notin DOMAIN db.apps
         THEN Out(db, Respond(r, "404 application"))
         ELSE IF db.apps[r.a].studentId # r.who
         THEN Out(db, Respond(r, "403 not yours"))
         ELSE IF db.apps[r.a].status = "withdrawn"
         THEN Out(db, Respond(r, "400 already withdrawn"))
         ELSE IF db.apps[r.a].status = "hired"
         THEN Out(db, Respond(r, "400 hired"))
         ELSE Out(db, Goto(r, "save"))
    [] r.pc = "save" ->
         Out([db EXCEPT !.apps[r.a].status = "withdrawn"], Respond(r, "200"))

withdrawApplication(db, r) ==
  CASE r.pc = "start" ->            \* Student.findOne, Application.findById
         IF r.a \notin DOMAIN db.apps
         THEN Out(db, Respond(r, "404 application"))
         ELSE IF db.apps[r.a].studentId # r.who
         THEN Out(db, Respond(r, "403 not yours"))
         ELSE IF db.apps[r.a].status = "withdrawn"
         THEN Out(db, Respond(r, "400 already withdrawn"))
         ELSE IF db.apps[r.a].status = "hired"
         THEN Out(db, Respond(r, "400 hired"))
         ELSE IF db.apps[r.a].status = "rejected"
         THEN Out(db, Respond(r, "400 rejected"))
         ELSE Out(db, Goto(r, "save"))
    [] r.pc = "save" ->             \* application.save(): status is the modified path
         Out([db EXCEPT !.apps[r.a].status = "withdrawn"], Respond(r, "200"))

(***************************************************************************)
(* companyController.updateApplication                                     *)
(***************************************************************************)
VISIBLE_APPLICATION_STATUSES == {"reviewed", "hired", "rejected"}

\* the $match of getJobApplications: what a company sees of its jobs' applications
CompanyVisible(doc) ==
  doc.status \in VISIBLE_APPLICATION_STATUSES /\ doc.reviewedAt # NULL

PendingOrReviewed(status) == status \in {"pending", "reviewed"}

\* application.status !== 'reviewed' guards the hire / reject
CompanyMayProcess(status) == status = "reviewed"

SaveWithdrawsTheOthers(appsNow, a, status) ==
  [b \in DOMAIN appsNow |->
     IF b = a THEN [appsNow[b] EXCEPT !.status = status, !.reviewedAt = DATE]
     ELSE IF /\ status = "hired" /\ appsNow[b].studentId = appsNow[a].studentId
             /\ appsNow[b].status \in {"pending", "reviewed"}
     THEN [appsNow[b] EXCEPT !.status = "withdrawn"]
     ELSE appsNow[b]]

\* application.status = status; application.reviewedAt = new Date(); save()
SaveProcessed(appsNow, a, status) ==
  [appsNow EXCEPT ![a] = [@ EXCEPT !.status = status, !.reviewedAt = DATE]]

HiresNobody(studentsNow, s) == studentsNow

\* Student.findByIdAndUpdate(application.studentId, {isHired: true})
SetHired(studentsNow, s) == [studentsNow EXCEPT ![s].isHired = TRUE]

companyUpdateApplication(db, r) ==
  CASE r.pc = "start" ->            \* Company.findOne, Application.findById.populate
         IF ~r.valid
         THEN Out(db, Respond(r, "400 validation"))
         ELSE IF r.a \notin DOMAIN db.apps
         THEN Out(db, Respond(r, "404 application"))
         ELSE IF db.jobs[db.apps[r.a].jobPostingId].companyId # r.who
         THEN Out(db, Respond(r, "403 not yours"))
         ELSE IF CompanyMayProcess(db.apps[r.a].status)
         THEN Out(db, Goto(r, "save"))
         ELSE IF db.apps[r.a].status = "pending"
         THEN Out(db, Respond(r, "400 not reviewed"))
         ELSE IF db.apps[r.a].status \in {"hired", "rejected"}
         THEN Out(db, Respond(r, "400 already processed"))
         ELSE Out(db, Respond(r, "400 withdrawn"))
    [] r.pc = "save" ->             \* application.save(): status, reviewedAt
         Out([db EXCEPT !.apps = SaveProcessed(@, r.a, r.status)],
             IF r.status = "hired" THEN Goto(r, "hire") ELSE Respond(r, "200"))
    [] r.pc = "hire" ->             \* Student.findByIdAndUpdate({isHired: true})
         Out([db EXCEPT !.students = SetHired(@, db.apps[r.a].studentId)],
             Dispatch(Respond(r, "200"), ApplicationHired))

(***************************************************************************)
(* adminController.updateApplication                                       *)
(***************************************************************************)
adminChecksAfterTheWrite(db, r) ==
  CASE r.pc = "start" ->
         IF ~r.valid
         THEN Out(db, Respond(r, "400 validation"))
         ELSE IF r.a \notin DOMAIN db.apps
         THEN Out(db, Respond(r, "404 application"))
         ELSE Out(db, Goto(r, "write"))
    [] r.pc = "write" ->
         Out([db EXCEPT !.apps[r.a] =
                IF r.status = "reviewed"
                THEN [@ EXCEPT !.status = "reviewed", !.reviewedAt = DATE,
                               !.rejectionReason = NULL]
                ELSE [@ EXCEPT !.status = "rejected", !.rejectionReason = r.reason]],
             IF db.apps[r.a].status = "withdrawn" THEN Respond(r, "400 withdrawn")
             ELSE IF db.apps[r.a].status = "hired" THEN Respond(r, "400 hired")
             ELSE Dispatch(Respond(r, "200"),
                           IF r.status = "reviewed" THEN ApplicationApproved
                           ELSE ApplicationRejected))

adminUpdateApplication(db, r) ==
  CASE r.pc = "start" ->            \* Application.findById
         IF ~r.valid
         THEN Out(db, Respond(r, "400 validation"))
         ELSE IF r.a \notin DOMAIN db.apps
         THEN Out(db, Respond(r, "404 application"))
         ELSE IF db.apps[r.a].status = "withdrawn"
         THEN Out(db, Respond(r, "400 withdrawn"))
         ELSE IF db.apps[r.a].status = "hired"
         THEN Out(db, Respond(r, "400 hired"))
         ELSE Out(db, Goto(r, "write"))
    [] r.pc = "write" ->            \* Application.findByIdAndUpdate
         Out([db EXCEPT !.apps[r.a] =
                IF r.status = "reviewed"
                THEN [@ EXCEPT !.status = "reviewed", !.reviewedAt = DATE,
                               !.rejectionReason = NULL]
                ELSE [@ EXCEPT !.status = "rejected", !.rejectionReason = r.reason]],
             Dispatch(Respond(r, "200"),
                      IF r.status = "reviewed" THEN ApplicationApproved
                      ELSE ApplicationRejected))

(***************************************************************************)
(* adminController.updateJob                                               *)
(***************************************************************************)
adminUpdateJob(db, r) ==
  CASE r.pc = "start" ->            \* JobPosting.findById
         IF ~r.valid
         THEN Out(db, Respond(r, "400 validation"))
         ELSE IF r.j \notin DOMAIN db.jobs
         THEN Out(db, Respond(r, "404 job"))
         ELSE Out(db, [Goto(r, "write") EXCEPT !.previousStatus = db.jobs[r.j].status])
    [] r.pc = "write" ->            \* JobPosting.findByIdAndUpdate
         Out([db EXCEPT !.jobs[r.j] =
                CASE r.status = "approved" ->
                       [@ EXCEPT !.status = r.status, !.approvedAt = DATE,
                                 !.rejectionReason = NULL]
                  [] r.status = "rejected" ->
                       [@ EXCEPT !.status = r.status, !.rejectionReason = r.reason,
                                 !.approvedAt = NULL]
                  [] r.status = "pending" ->
                       [@ EXCEPT !.status = r.status, !.approvedAt = NULL]
                  [] OTHER -> [@ EXCEPT !.status = r.status]],
             IF r.status = "closed" THEN Goto(r, "cascade")
             ELSE IF r.previousStatus # r.status /\ r.status = "approved"
             THEN Dispatch(Respond(r, "200"), JobApproved)
             ELSE Respond(r, "200"))
    [] r.pc = "cascade" ->          \* Application.updateMany
         Out([db EXCEPT !.apps = RejectOpenApplications(@, r.j)], Respond(r, "200"))

(***************************************************************************)
(* companyController: the job handlers.  Each starts with Company.findOne  *)
(* and JobPosting.findById and the ownership check.                        *)
(***************************************************************************)
ErrorOf ==
  [title |-> "400 title", description |-> "400 description",
   requirements |-> "400 requirements", location |-> "400 location",
   jobType |-> "400 job type", salaryRange |-> "400 salary range",
   deadline |-> "400 deadline"]

\* the error of the first field of Fields that bad(_) holds of, "-" if none
RECURSIVE FirstError(_, _)
FirstError(isBad, i) ==
  IF i > Len(Fields) THEN "-"
  ELSE IF isBad[Fields[i]] THEN ErrorOf[Fields[i]]
  ELSE FirstError(isBad, i + 1)

\* createJobSchema, field by field: min length, enum, deadline > new Date()
\* (the .max() of the strings is beyond the lengths of the model)
FieldIsValid(f, v, t) ==
  CASE f \in StringFields -> v.raw >= MinLength[f]
    [] f = "jobType" -> v.raw >= FullTime
    [] f = "deadline" -> v.raw > t

\* createJobSchema.parse(body): the first ZodError
createJobSchema(body, t) ==
  FirstError([f \in FieldSet |->
                body[f].raw = UNDEFINED \/ ~FieldIsValid(f, body[f], t)], 1)

\* updateJobSchema = createJobSchema.partial()
updateJobSchema(body, t) ==
  FirstError([f \in FieldSet |->
                body[f].raw # UNDEFINED /\ ~FieldIsValid(f, body[f], t)], 1)

\* updateFields: the parsed (trimmed) value of every field of the body
UpdateFields(body) == [f \in FieldSet |-> body[f].len]

\* updateFields.x ?? job.x
Merged(content, updateFields) ==
  [f \in FieldSet |-> IF updateFields[f] \in {UNDEFINED, NULLV}
                       THEN content[f] ELSE updateFields[f]]

\* $set: updateFields
SetFields(content, updateFields) ==
  [f \in FieldSet |-> IF updateFields[f] = UNDEFINED THEN content[f] ELSE updateFields[f]]

SubmitIgnoresTitle(merged, t) ==
  FirstError([f \in FieldSet |->
                CASE f \in StringFields \ {"title"} -> merged[f] < MinLength[f]
                  [] f = "title" -> FALSE
                  [] f = "jobType" -> merged[f] < FullTime
                  [] f = "deadline" -> merged[f] = NULLV \/ merged[f] <= t], 1)

\* the checks of the merged fields when a draft is submitted: !merged.x,
\* merged.x.length < n, new Date(merged.deadline) <= new Date()
SubmitError(merged, t) ==
  FirstError([f \in FieldSet |->
                CASE f \in {"title", "description", "location"} -> merged[f] < MinLength[f]
                  [] f \in {"requirements", "salaryRange"} -> merged[f] < 1
                  [] f = "jobType" -> merged[f] < FullTime
                  [] f = "deadline" -> merged[f] = NULLV \/ merged[f] <= t], 1)

\* JobPostingSchema: required / minlength / enum of a value that is written
SchemaRejects(f, v) ==
  CASE f \in {"title", "description", "location"} -> v < MinLength[f]
    [] f = "jobType" -> v < FullTime
    [] OTHER -> FALSE

\* JobPosting.create validates every path
CreateRejected(content) == \E f \in FieldSet : SchemaRejects(f, content[f])

\* findByIdAndUpdate(..., {runValidators: true}) validates the paths of $set
UpdateRejected(updateFields) ==
  \E f \in FieldSet : updateFields[f] # UNDEFINED /\ SchemaRejects(f, updateFields[f])

JobNotFoundOrForeign(db, r) ==
  IF r.j \notin DOMAIN db.jobs THEN "404 job"
  ELSE IF db.jobs[r.j].companyId # r.who THEN "403 not yours"
  ELSE "-"

companyUpdateJob(db, r) ==
  CASE r.pc = "start" ->
         IF JobNotFoundOrForeign(db, r) # "-"
         THEN Out(db, Respond(r, JobNotFoundOrForeign(db, r)))
         ELSE LET status == db.jobs[r.j].status IN
         IF r.status = "closed"
         THEN IF status = "closed" THEN Out(db, Respond(r, "400 already closed"))
              ELSE IF status = "draft" THEN Out(db, Respond(r, "400 draft"))
              ELSE Out(db, Goto(r, "close"))
         ELSE IF r.status = "unpublished"
         THEN IF status # "approved" THEN Out(db, Respond(r, "400 not approved"))
              ELSE Out(db, Goto(r, "unpublish"))
         ELSE IF r.status = "pending" /\ status = "unpublished"
         THEN Out(db, Goto(r, "republish"))
         ELSE IF status # "pending" /\ status # "draft"
         THEN Out(db, Respond(r, "403 not editable"))
         ELSE IF ~r.valid                 \* ZodError: a field of the wrong type
         THEN Out(db, Respond(r, "400 validation"))
         ELSE LET wantsToSubmit == r.status = "pending" /\ status = "draft"
                  \* createDraftJobSchema.partial() lets every body of the model through
                  zodError == IF wantsToSubmit \/ status # "draft"
                              THEN updateJobSchema(r.body, db.now) ELSE "-"
                  merged == Merged(db.jobs[r.j].content, UpdateFields(r.body))
              IN
              IF zodError # "-" THEN Out(db, Respond(r, zodError))
              ELSE IF wantsToSubmit /\ SubmitError(merged, db.now) # "-"
              THEN Out(db, Respond(r, SubmitError(merged, db.now)))
              ELSE IF wantsToSubmit THEN Out(db, Goto(r, "submit"))
              ELSE Out(db, Goto(r, "edit"))
    [] r.pc = "close" ->            \* JobPosting.findByIdAndUpdate({status: closed})
         Out([db EXCEPT !.jobs[r.j].status = "closed"], Goto(r, "cascade"))
    [] r.pc = "cascade" ->          \* Application.updateMany
         Out([db EXCEPT !.apps = RejectOpenApplications(@, r.j)], Respond(r, "200"))
    [] r.pc = "unpublish" ->
         Out([db EXCEPT !.jobs[r.j].status = "unpublished"], Respond(r, "200"))
    [] r.pc = "republish" ->
         Out([db EXCEPT !.jobs[r.j] = [@ EXCEPT !.status = "pending", !.approvedAt = NULL,
                                                 !.rejectionReason = NULL]],
             Respond(r, "200"))
    [] r.pc = "submit" ->           \* $set: content fields and status: pending
         IF UpdateRejected(UpdateFields(r.body)) THEN Out(db, Respond(r, "500"))
         ELSE Out([db EXCEPT !.jobs[r.j] =
                     [@ EXCEPT !.content = SetFields(@, UpdateFields(r.body)),
                               !.status = "pending"]],
                  Respond(r, "200"))
    [] r.pc = "edit" ->             \* $set: content fields only
         IF UpdateRejected(UpdateFields(r.body)) THEN Out(db, Respond(r, "500"))
         ELSE Out([db EXCEPT !.jobs[r.j].content = SetFields(@, UpdateFields(r.body))],
                  Respond(r, "200"))

unpublishJob(db, r) ==
  CASE r.pc = "start" ->
         IF JobNotFoundOrForeign(db, r) # "-"
         THEN Out(db, Respond(r, JobNotFoundOrForeign(db, r)))
         ELSE IF db.jobs[r.j].status # "approved"
         THEN Out(db, Respond(r, "400 not approved"))
         ELSE Out(db, Goto(r, "unpublish"))
    [] r.pc = "unpublish" ->
         Out([db EXCEPT !.jobs[r.j].status = "unpublished"], Respond(r, "200"))

republishJob(db, r) ==
  CASE r.pc = "start" ->
         IF JobNotFoundOrForeign(db, r) # "-"
         THEN Out(db, Respond(r, JobNotFoundOrForeign(db, r)))
         ELSE IF db.jobs[r.j].status # "unpublished"
         THEN Out(db, Respond(r, "400 not unpublished"))
         ELSE Out(db, Goto(r, "republish"))
    [] r.pc = "republish" ->
         Out([db EXCEPT !.jobs[r.j] = [@ EXCEPT !.status = "pending", !.approvedAt = NULL,
                                                 !.rejectionReason = NULL]],
             Respond(r, "200"))

closeJob(db, r) ==
  CASE r.pc = "start" ->
         IF JobNotFoundOrForeign(db, r) # "-"
         THEN Out(db, Respond(r, JobNotFoundOrForeign(db, r)))
         ELSE IF db.jobs[r.j].status = "closed"
         THEN Out(db, Respond(r, "400 already closed"))
         ELSE IF db.jobs[r.j].status = "draft"
         THEN Out(db, Respond(r, "400 draft"))
         ELSE Out(db, Goto(r, "close"))
    [] r.pc = "close" ->            \* JobPosting.findByIdAndUpdate({status: closed})
         Out([db EXCEPT !.jobs[r.j].status = "closed"], Goto(r, "cascade"))
    [] r.pc = "cascade" ->          \* Application.updateMany
         Out([db EXCEPT !.apps = RejectOpenApplications(@, r.j)], Respond(r, "200"))

\* parsed.x || null
OrNull(v) == IF v.len = UNDEFINED \/ v.len = 0 THEN NULLV ELSE v.len

\* companyController.createJob: JobPosting.create with the requested status
createJob(db, r) ==
  CASE r.pc = "start" ->            \* schema.parse(body), Company.findOne
         IF r.status # "draft" /\ createJobSchema(r.body, db.now) # "-"
         THEN Out(db, Respond(r, createJobSchema(r.body, db.now)))
         ELSE Out(db, Goto(r, "create"))
    [] r.pc = "create" ->           \* JobPosting.create
         LET content == [f \in FieldSet |-> OrNull(r.body[f])] IN
         IF CreateRejected(content) THEN Out(db, Respond(r, "500"))
         ELSE Out([db EXCEPT !.jobs = @ @@ (r.j :> [JobDoc(r.who, r.status) EXCEPT
                                                      !.content = content])],
                  Respond(r, "201"))

(***************************************************************************)
(* subscriptionService.checkSubscriptionStatus and the route that calls    *)
(* it, subscriptionController.getCurrentSubscription.                      *)
(***************************************************************************)
GraceOfTwoDays(endDate) == endDate + 2

toGracePeriodEnd(endDate) == endDate + SUBSCRIPTION_GRACE_PERIOD_DAYS

\* subscription.endDate < now && now <= gracePeriodEnd
InGracePeriod(endDate, t) == endDate < t /\ t <= toGracePeriodEnd(endDate)

\* subscription.status === 'active' && (subscription.endDate >= now || inGracePeriod)
IsActive(status, endDate, t) ==
  status = "active" /\ (endDate >= t \/ InGracePeriod(endDate, t))

NeverCancelled(status) == FALSE

\* subscription.status === 'cancelled'
IsCancelled(status) == status = "cancelled"

ExpiresWheneverInactive(status, endDate, t) ==
  ~IsActive(status, endDate, t) /\ status # "expired"

\* !isActive && subscription.status !== 'expired' && subscription.endDate < now
Lapsed(status, endDate, t) ==
  ~IsActive(status, endDate, t) /\ status # "expired" /\ endDate < t

FreeStatus ==
  [NoResult EXCEPT !.tier = "free", !.status = "free", !.isActive = TRUE]

getCurrentSubscription(db, r) ==
  CASE r.pc = "start" ->            \* controller: Student.findOne
         Out(db, Goto(r, "student"))
    [] r.pc = "student" ->          \* checkSubscriptionStatus: Student.findById
         IF db.students[r.who].currentSubscriptionId = NULL
         THEN Out(db, Respond([r EXCEPT !.result = FreeStatus], "200"))
         ELSE Out(db, [Goto(r, "findSub") EXCEPT
                         !.sub = db.students[r.who].currentSubscriptionId])
    [] r.pc = "findSub" ->          \* ActiveSubscription.findById, then new Date()
         IF r.sub \notin DOMAIN db.subs
         THEN Out(db, Goto(r, "clear"))
         ELSE LET doc == db.subs[r.sub]
                  res == [NoResult EXCEPT !.tier = "paid", !.subscription = r.sub]
              IN
              IF IsCancelled(doc.status)
              THEN Out(db, Respond([r EXCEPT !.seen = doc,
                                              !.result = [res EXCEPT !.status = "cancelled"]],
                                   "200"))
              ELSE LET full == [res EXCEPT
                                  !.status = doc.status,
                                  !.inGracePeriod = InGracePeriod(doc.endDate, db.now),
                                  !.isActive = IsActive(doc.status, doc.endDate, db.now)]
                   IN
                   IF Lapsed(doc.status, doc.endDate, db.now)
                   THEN Out(db, [Goto(r, "expire") EXCEPT !.seen = doc, !.result = full])
                   ELSE Out(db, Respond([r EXCEPT !.seen = doc, !.result = full], "200"))
    [] r.pc = "expire" ->           \* ActiveSubscription.updateOne({_id}, {status: expired})
         Out([db EXCEPT !.subs[r.sub].status = "expired"],
             Respond([r EXCEPT !.result.status = "expired"], "200"))
    [] r.pc = "clear" ->            \* Student.findByIdAndUpdate: the subscription is gone
         Out([db EXCEPT !.students[r.who] =
                [@ EXCEPT !.currentSubscriptionId = NULL, !.subscriptionTier = "free"]],
             Respond([r EXCEPT !.result = FreeStatus], "200"))

(***************************************************************************)
(* subscriptionService.getApplicationLimit, applicationService.canApply    *)
(***************************************************************************)
\* SystemConfig.getValue(FREE_TIER_MAX_APPLICATIONS, default)
getFreeTierMaxApplications(db) ==
  IF db.config = {} THEN DEFAULT_FREE_TIER_MAX_APPLICATIONS
  ELSE CHOOSE v \in db.config : TRUE

getApplicationLimit(db, s) ==
  IF db.students[s].subscriptionTier = "paid"
  THEN LET cur == db.students[s].currentSubscriptionId IN
       IF cur # NULL /\ cur \in DOMAIN db.subs
            /\ PlanMaxApplications[db.subs[cur].serviceId] # {}
       THEN CHOOSE v \in PlanMaxApplications[db.subs[cur].serviceId] : TRUE
       ELSE Infinity
  ELSE getFreeTierMaxApplications(db)

LimitExceededOnly(used, limit) == used > limit

\* applicationsUsed >= applicationLimit
LimitReached(used, limit) == used >= limit

canApply(db, s) ==
  IF s \notin DOMAIN db.students
  THEN [NoResult EXCEPT !.reason = "not_found"]
  ELSE IF IsHired(db.students[s])
  THEN [NoResult EXCEPT !.reason = "hired"]
  ELSE LET applicationLimit == getApplicationLimit(db, s)
           applicationsUsed == getActiveApplicationCount(db.apps, s)
       IN
       IF applicationLimit = Infinity
       THEN [NoResult EXCEPT !.canApply = TRUE, !.applicationsUsed = applicationsUsed,
                             !.applicationLimit = applicationLimit]
       ELSE IF LimitReached(applicationsUsed, applicationLimit)
       THEN [NoResult EXCEPT !.reason = "limit", !.applicationsUsed = applicationsUsed,
                             !.applicationLimit = applicationLimit]
       ELSE [NoResult EXCEPT !.canApply = TRUE, !.applicationsUsed = applicationsUsed,
                             !.applicationLimit = applicationLimit]

\* a caller of canApply / of getApplicationLimit: the reads, one after another
canApplyCall(db, r) ==
  CASE r.pc = "start" -> Out(db, Respond([r EXCEPT !.result = canApply(db, r.who)], "returned"))

getApplicationLimitCall(db, r) ==
  CASE r.pc = "start" ->
         Out(db, Respond([r EXCEPT !.result.applicationLimit = getApplicationLimit(db, r.who)],
                         "returned"))

(***************************************************************************)
(* subscriptionController: createOrUpgradeSubscription, updateSubscription,*)
(* cancelSubscription.                                                     *)
(***************************************************************************)
SubscriptionDoc(s, plan, endDate) ==
  [studentId |-> s, serviceId |-> plan, endDate |-> endDate, status |-> "active"]

FreeSubIds(subsNow) == {i \in 1..MaxSubs : SubOrder[i] \notin DOMAIN subsNow}

FreshSubId(subsNow) ==
  SubOrder[CHOOSE i \in FreeSubIds(subsNow) : \A k \in FreeSubIds(subsNow) : i <= k]

\* updateOne / findOneAndUpdate({_id, studentId, status: {$in: [active, pending]}})
CancelMatches(db, r) ==
  /\ r.sub \in DOMAIN db.subs
  /\ db.subs[r.sub].studentId = r.who
  /\ db.subs[r.sub].status \in {"active", "pending"}

ClearsOnlyTheId(db, s) ==
  [db EXCEPT !.students[s] = [@ EXCEPT !.currentSubscriptionId = NULL]]

\* Student.updateOne({currentSubscriptionId: null, subscriptionTier: 'free'})
ClearStudent(db, s) ==
  [db EXCEPT !.students[s] =
     [@ EXCEPT !.currentSubscriptionId = NULL, !.subscriptionTier = "free"]]

createOrUpgradeSubscription(db, r) ==
  CASE r.pc = "start" ->            \* Student.findOne
         Out(db, [Goto(r, "service") EXCEPT !.sub = db.students[r.who].currentSubscriptionId])
    [] r.pc = "service" ->          \* AvailableService.findOne; now, endDate
         Out(db, [Goto(r, IF r.sub # NULL THEN "cancelOld" ELSE "create") EXCEPT
                    !.newEnd = db.now + r.days])
    [] r.pc = "cancelOld" ->        \* ActiveSubscription.updateOne: cancel the current one
         Out(IF CancelMatches(db, r)
             THEN [db EXCEPT !.subs[r.sub].status = "cancelled"] ELSE db,
             Goto(r, "create"))
    [] r.pc = "create" ->           \* ActiveSubscription.create
         LET id == FreshSubId(db.subs) IN
         Out([db EXCEPT !.subs = @ @@ (id :> SubscriptionDoc(r.who, r.plan, r.newEnd))],
             [Goto(r, "payment") EXCEPT !.result.subscription = id])
    [] r.pc = "payment" ->          \* PaymentRecord.create
         Out(db, Goto(r, "student"))
    [] r.pc = "student" ->          \* Student.updateOne
         Out([db EXCEPT !.students[r.who] =
                [@ EXCEPT !.currentSubscriptionId = r.result.subscription,
                          !.subscriptionTier = "paid"]],
             Goto(r, "populate"))
    [] r.pc = "populate" ->         \* ActiveSubscription.findById.populate
         Out(db, Respond(r, "201"))

updateSubscription(db, r) ==
  CASE r.pc = "start" ->            \* Student.findOne
         IF db.students[r.who].currentSubscriptionId = NULL
         THEN Out(db, Respond(r, "404 no subscription"))
         ELSE Out(db, [Goto(r, "findSub") EXCEPT
                         !.sub = db.students[r.who].currentSubscriptionId])
    [] r.pc = "findSub" ->          \* ActiveSubscription.findOne({_id, studentId})
         IF r.sub \notin DOMAIN db.subs \/ db.subs[r.sub].studentId # r.who
         THEN Out(db, Goto(r, "clear404"))
         ELSE LET doc == db.subs[r.sub] IN
              IF r.days > 0         \* extendByDays
              THEN LET baseline == IF doc.endDate > db.now THEN doc.endDate ELSE db.now IN
                   Out(db, [Goto(r, "payment") EXCEPT !.seen = doc,
                                                      !.newEnd = baseline + r.days])
              ELSE IF r.status = "-"
              THEN Out(db, Respond([r EXCEPT !.seen = doc], "400 no fields"))
              ELSE Out(db, [Goto(r, "write") EXCEPT !.seen = doc])
    [] r.pc = "payment" ->          \* PaymentRecord.create
         Out(db, Goto(r, "write"))
    [] r.pc = "write" ->            \* ActiveSubscription.findByIdAndUpdate($set: updateFields)
         LET after == IF r.days > 0
                      THEN [db.subs[r.sub] EXCEPT !.endDate = r.newEnd, !.status = "active"]
                      ELSE [db.subs[r.sub] EXCEPT !.status = r.status]
         IN Out([db EXCEPT !.subs[r.sub] = after],
                IF after.status = "cancelled" THEN Goto(r, "clear") ELSE Respond(r, "200"))
    [] r.pc = "clear" ->            \* Student.updateOne
         Out(ClearStudent(db, r.who), Respond(r, "200"))
    [] r.pc = "clear404" ->         \* Student.updateOne
         Out(ClearStudent(db, r.who), Respond(r, "404 subscription"))

cancelSubscription(db, r) ==
  CASE r.pc = "start" ->            \* Student.findOne
         IF db.students[r.who].currentSubscriptionId = NULL
         THEN Out(db, Respond(r, "404 no subscription"))
         ELSE Out(db, [Goto(r, "cancel") EXCEPT
                         !.sub = db.students[r.who].currentSubscriptionId])
    [] r.pc = "cancel" ->           \* ActiveSubscription.findOneAndUpdate
         IF CancelMatches(db, r)
         THEN Out([db EXCEPT !.subs[r.sub].status = "cancelled"], Goto(r, "clear"))
         ELSE Out(db, Goto(r, "clear404"))
    [] r.pc = "clear" ->            \* Student.updateOne
         Out(ClearStudent(db, r.who), Respond(r, "200"))
    [] r.pc = "clear404" ->         \* Student.updateOne
         Out(ClearStudent(db, r.who), Respond(r, "404 subscription"))

\* the free plan of AvailableService.getFreePlan, and the tier of a plan
FREE_PLAN == "free"
PlanTier(plan) == IF plan = FREE_PLAN THEN "free" ELSE "paid"

\* authController.registerStudent (r.who is the student being created)
registerStudent(db, r) ==
  CASE r.pc = "start" ->            \* User.create, getFreePlan, Student.create
         Out([db EXCEPT !.students = @ @@
                (r.who :> [isHired |-> FALSE, subscriptionTier |-> "free",
                           currentSubscriptionId |-> NULL])],
             Goto(r, "create"))
    [] r.pc = "create" ->           \* ActiveSubscription.create, endDate 2099-12-31
         LET id == FreshSubId(db.subs) IN
         Out([db EXCEPT !.subs = @ @@ (id :> SubscriptionDoc(r.who, FREE_PLAN, LastEndDate))],
             [Goto(r, "student") EXCEPT !.result.subscription = id])
    [] r.pc = "student" ->          \* Student.findByIdAndUpdate({currentSubscriptionId})
         Out([db EXCEPT !.students[r.who].currentSubscriptionId = r.result.subscription],
             Respond(r, "201"))

\* adminController.assignStudentSubscription (r.who is the student)
assignStudentSubscription(db, r) ==
  CASE r.pc = "start" ->            \* Student.findById
         Out(db, [Goto(r, "service") EXCEPT !.sub = db.students[r.who].currentSubscriptionId])
    [] r.pc = "service" ->          \* AvailableService.findById
         Out(db, Goto(r, IF r.sub # NULL THEN "current" ELSE "create"))
    [] r.pc = "current" ->          \* ActiveSubscription.findById.populate(serviceId)
         Out(db, Goto(r, IF r.sub \in DOMAIN db.subs /\ PlanTier(db.subs[r.sub].serviceId) # "free"
                         THEN "cancelOld" ELSE "create"))
    [] r.pc = "cancelOld" ->        \* ActiveSubscription.updateOne({_id})
         Out(IF r.sub \in DOMAIN db.subs
             THEN [db EXCEPT !.subs[r.sub].status = "cancelled"] ELSE db,
             [Goto(r, "create") EXCEPT !.newEnd = db.now + r.days])
    [] r.pc = "create" ->           \* now, calculatedEndDate, ActiveSubscription.create
         LET id == FreshSubId(db.subs) IN
         Out([db EXCEPT !.subs = @ @@ (id :> SubscriptionDoc(r.who, r.plan, db.now + r.days))],
             [Goto(r, "student") EXCEPT !.result.subscription = id])
    [] r.pc = "student" ->          \* Student.updateOne
         Out([db EXCEPT !.students[r.who] =
                [@ EXCEPT !.currentSubscriptionId = r.result.subscription,
                          !.subscriptionTier = PlanTier(r.plan)]],
             Goto(r, "populate"))
    [] r.pc = "populate" ->         \* ActiveSubscription.findById.populate
         Out(db, Respond(r, "200"))

\* adminController.updateFreeTierConfig: SystemConfig.setValue (upsert)
updateFreeTierConfig(db, r) ==
  CASE r.pc = "start" -> Out([db EXCEPT !.config = {r.days}], Respond(r, "200"))

(***************************************************************************)
(* One store operation of a request, and a handler run to completion.      *)
(***************************************************************************)
HandlerStep(db, r) ==
  CASE r.op = "applyToJob" -> applyToJob(db, r)
    [] r.op = "withdrawApplication" -> withdrawApplication(db, r)
    [] r.op = "companyUpdateApplication" -> companyUpdateApplication(db, r)
    [] r.op = "adminUpdateApplication" -> adminUpdateApplication(db, r)
    [] r.op = "adminUpdateJob" -> adminUpdateJob(db, r)
    [] r.op = "companyUpdateJob" -> companyUpdateJob(db, r)
    [] r.op = "unpublishJob" -> unpublishJob(db, r)
    [] r.op = "republishJob" -> republishJob(db, r)
    [] r.op = "closeJob" -> closeJob(db, r)
    [] r.op = "createJob" -> createJob(db, r)
    [] r.op = "getCurrentSubscription" -> getCurrentSubscription(db, r)
    [] r.op = "canApply" -> canApplyCall(db, r)
    [] r.op = "getApplicationLimit" -> getApplicationLimitCall(db, r)
    [] r.op = "createOrUpgradeSubscription" -> createOrUpgradeSubscription(db, r)
    [] r.op = "updateSubscription" -> updateSubscription(db, r)
    [] r.op = "cancelSubscription" -> cancelSubscription(db, r)
    [] r.op = "updateFreeTierConfig" -> updateFreeTierConfig(db, r)
    [] r.op = "registerStudent" -> registerStudent(db, r)
    [] r.op = "assignStudentSubscription" -> assignStudentSubscription(db, r)
    [] r.op = "sendEmail" -> sendEmail(db, r)
    [] r.op = "getPublicProfile" -> getPublicProfile(db, r)
    [] r.op = "updateProfile" -> updateProfile(db, r)
    [] r.op = "updateCompany" -> updateCompany(db, r)

RECURSIVE Run(_, _)
Run(db, r) ==
  IF r.pc = "done" THEN Out(db, r)
  ELSE LET n == HandlerStep(db, r) IN Run(n.db, n.req)

\* An insert needs a free row id, and under Spec room in the store.
CanStep(db, r, maxRows) ==
  /\ (r.op = "applyToJob" /\ r.pc = "write" /\ r.existing = NoApp
         /\ UniqueIndexAdmits(db.apps, r.who, r.j))
        => /\ FreeIds(db.apps, r.who, r.j) # {}
           /\ Cardinality(DOMAIN db.apps) < maxRows
  /\ ( /\ r.op \in {"createOrUpgradeSubscription", "registerStudent",
                      "assignStudentSubscription"}
       /\ r.pc = "create" )
        => FreeSubIds(db.subs) # {}
  /\ (r.op = "updateSubscription" /\ r.pc = "write" /\ r.days > 0)
        => r.newEnd <= LastEndDate

RECURSIVE CanRun(_, _, _)
CanRun(db, r, maxRows) ==
  IF r.pc = "done" THEN TRUE
  ELSE IF ~CanStep(db, r, maxRows) THEN FALSE
  ELSE LET n == HandlerStep(db, r) IN CanRun(n.db, n.req, maxRows)

(***************************************************************************)
(* Spec: requests served one at a time.  The answered request stays in     *)
(* `requests` until its response is delivered (Reply).                     *)
(***************************************************************************)
ServeWithin(r, maxRows) ==
  /\ requests = EmptyBag
  /\ CanRun(DB, r, maxRows)
  /\ LET out == Run(DB, r) IN
       /\ jobs' = out.db.jobs
       /\ apps' = out.db.apps
       /\ students' = out.db.students
       /\ subs' = out.db.subs
       /\ config' = out.db.config
       /\ companies' = out.db.companies
       /\ profileCache' = out.db.profileCache
       /\ UNCHANGED <<preferences, emailEnv>>
       /\ requests' = SetToBag({out.req})
       /\ UNCHANGED now

Serve(r) == ServeWithin(r, MaxRows)

Reply ==
  \E r \in BagToSet(requests) :
    /\ r.pc = "done"
    /\ requests' = requests (-) SetToBag({r})
    /\ UNCHANGED <<jobs, apps, students, subs, config, now, companies, profileCache,
                 preferences, emailEnv>>

\* ids a client can send: every existing application and one that does not exist
AppInputs == DOMAIN apps \cup {NoApp}

ApplyToJob == \E s \in Students, j \in AllJobs :
  /\ s \in DOMAIN students
  /\ Serve(Request("applyToJob", s, j, NoApp, "-", NULL, TRUE))

WithdrawApplication == \E s \in Students, a \in AppInputs :
  /\ s \in DOMAIN students
  /\ Serve(Request("withdrawApplication", s, NoJob, a, "-", NULL, TRUE))

CompanyUpdateApplication == \E c \in Companies, a \in AppInputs, st \in {"hired", "rejected"} :
  /\ c \in Companies
  /\ Serve(Request("companyUpdateApplication", c, NoJob, a, st, NULL, TRUE))

AdminUpdateApplication ==
  \E a \in AppInputs, st \in {"reviewed", "rejected"}, reason \in {NULL, AdminReason} :
    /\ st = "reviewed" => reason = NULL
    /\ Serve(Request("adminUpdateApplication", ADMIN, NoJob, a, st, reason, TRUE))

AdminUpdateJob(statuses) == \E j \in AllJobs, st \in statuses, reason \in {NULL, AdminReason} :
  /\ st # "rejected" => reason = NULL
  /\ Serve(Request("adminUpdateJob", ADMIN, j, NoApp, st, reason, TRUE))

CompanyUpdateJob(statuses) ==
  \E c \in Companies, j \in AllJobs, st \in statuses, v \in BOOLEAN :
    /\ st \in {"closed", "unpublished"} => v
    /\ Serve(Request("companyUpdateJob", c, j, NoApp, st, NULL, v))

UnpublishJob == \E c \in Companies, j \in AllJobs :
  /\ c \in Companies
  /\ Serve(Request("unpublishJob", c, j, NoApp, "-", NULL, TRUE))

RepublishJob == \E c \in Companies, j \in AllJobs :
  /\ c \in Companies
  /\ Serve(Request("republishJob", c, j, NoApp, "-", NULL, TRUE))

CloseJob == \E c \in Companies, j \in AllJobs :
  /\ c \in Companies
  /\ Serve(Request("closeJob", c, j, NoApp, "-", NULL, TRUE))

CreateJob == \E c \in Companies, j \in SeqJobs, st \in {"draft", "pending"} :
  /\ Owner(j) = c
  /\ j \notin DOMAIN jobs
  /\ Serve(JobRequest("createJob", c, j, st, FullBody))

\* s1 is on the free tier; s2 has bought the unlimited plan (subscription sub1)
StudentsInit ==
  /\ students = [s \in Students |->
                   [isHired |-> FALSE,
                    subscriptionTier |-> IF s = "s1" THEN "free" ELSE "paid",
                    currentSubscriptionId |-> IF s = "s1" THEN NULL ELSE "sub1"]]
  /\ subs = ("sub1" :> SubscriptionDoc("s2", "pro", 1))
  /\ config = {}
  /\ ServicesInit
  /\ now = 0

ApprovedJobs(J) == [j \in J |-> [JobDoc(Owner(j), "approved") EXCEPT !.approvedAt = DATE]]

\* Spec: the application lifecycle.  Two approved jobs, no applications yet;
\* the jobs are closed by their company or the admin and re-approved by the admin.
Init ==
  /\ jobs = ApprovedJobs(SeqJobs)
  /\ apps = <<>>
  /\ StudentsInit
  /\ requests = EmptyBag

Next ==
  \/ ApplyToJob
  \/ WithdrawApplication
  \/ CompanyUpdateApplication
  \/ AdminUpdateApplication
  \/ AdminUpdateJob(SeqAdminJobStatuses)
  \/ CompanyUpdateJob({"closed"})
  \/ CloseJob
  \/ Reply

Spec == Init /\ [][Next]_vars

\* JobSpec: the job lifecycle, from an empty store, every job handler with
\* every status the schemas let through.
JobInit ==
  /\ jobs = <<>>
  /\ apps = <<>>
  /\ StudentsInit
  /\ requests = EmptyBag

JobNext ==
  \/ CreateJob
  \/ AdminUpdateJob(JOB_STATUSES)
  \/ CompanyUpdateJob({"closed", "unpublished", "pending"})
  \/ UnpublishJob
  \/ RepublishJob
  \/ CloseJob
  \/ Reply

JobSpec == JobInit /\ [][JobNext]_vars

(***************************************************************************)
(* Subscription and entitlement requests.                                  *)
(***************************************************************************)
GetCurrentSubscription == \E s \in Students :
  /\ s \in DOMAIN students
  /\ Serve(SubscriptionRequest("getCurrentSubscription", s, "-", 0, "-"))

GetApplicationLimit == \E s \in Students :
  /\ s \in DOMAIN students
  /\ Serve(SubscriptionRequest("getApplicationLimit", s, "-", 0, "-"))

CanApply == \E s \in Students :
  /\ s \in DOMAIN students
  /\ Serve(SubscriptionRequest("canApply", s, "-", 0, "-"))

CreateOrUpgradeSubscription == \E s \in Students, plan \in Plans, d \in DurationDays :
  /\ s \in DOMAIN students
  /\ Serve(SubscriptionRequest("createOrUpgradeSubscription", s, plan, d, "-"))

\* body: {extendByDays}, {status} or neither
UpdateSubscription ==
  \E s \in Students, d \in ExtendByDays \cup {0}, st \in {"-", "active", "cancelled", "pending"} :
    /\ s \in DOMAIN students
    /\ d > 0 => st = "-"
    /\ Serve(SubscriptionRequest("updateSubscription", s, "-", d, st))

CancelSubscription == \E s \in Students :
  /\ s \in DOMAIN students
  /\ Serve(SubscriptionRequest("cancelSubscription", s, "-", 0, "-"))

UpdateFreeTierConfig == \E n \in FreeTierInputs :
  /\ n \in Nat
  /\ Serve(SubscriptionRequest("updateFreeTierConfig", ADMIN, "-", n, "-"))

\* bodies a company sends with a draft: every field absent or well formed,
\* a title that is too short, is padded with blanks or is only blanks, a
\* description padded with blanks, a deadline on day 1 or after the last day
Bodies ==
  {[title |-> t, description |-> d, requirements |-> q, location |-> l,
    jobType |-> k, salaryRange |-> p, deadline |-> e] :
     t \in {Absent, Value(5), Value(4), Padded(5, 4), Padded(5, 0)},
     d \in {Absent, Value(50), Padded(50, 49)},
     q \in {Absent, Value(1)},
     l \in {Absent, Value(2)},
     k \in {Absent, Value(FullTime)},
     p \in {Absent, Value(1)},
     e \in {Absent, Value(1), Value(LastDeadline)}}

DraftJobs == {"j1"}

CreateDraftJob == \E j \in DraftJobs, body \in Bodies :
  /\ j \notin DOMAIN jobs
  /\ Serve(JobRequest("createJob", Owner(j), j, "draft", body))

\* updateJob with content fields, and status pending (a submit) or no status
EditOrSubmitJob == \E j \in DraftJobs, st \in {"pending", "-"}, body \in Bodies :
  /\ j \in DOMAIN jobs
  /\ Serve(JobRequest("companyUpdateJob", Owner(j), j, st, body))

\* a day passes
Tick ==
  /\ requests = EmptyBag
  /\ now < MaxNow
  /\ now' = now + 1
  /\ UNCHANGED <<jobs, apps, students, requests, subs, config, companies, profileCache,
                 preferences, emailEnv>>

\* one student on the free tier, no subscription yet
FreeStudentInit ==
  /\ students = [s \in {"s1"} |->
                   [isHired |-> FALSE, subscriptionTier |-> "free",
                    currentSubscriptionId |-> NULL]]
  /\ subs = <<>>
  /\ config = {}
  /\ ServicesInit
  /\ now = 0
  /\ apps = <<>>
  /\ requests = EmptyBag

\* SubSpec: the subscription lifecycle of a student as the days pass.
SubInit ==
  /\ FreeStudentInit
  /\ jobs = <<>>

SubNext ==
  \/ CreateOrUpgradeSubscription
  \/ UpdateSubscription
  \/ CancelSubscription
  \/ GetCurrentSubscription
  \/ GetApplicationLimit
  \/ Tick
  \/ Reply

SubSpec == SubInit /\ [][SubNext]_vars

\* DraftSpec: a company writes a draft, edits it and submits it as the days pass.
DraftInit ==
  /\ FreeStudentInit
  /\ jobs = <<>>

DraftNext ==
  \/ CreateDraftJob
  \/ EditOrSubmitJob
  \/ Tick
  \/ Reply

DraftSpec == DraftInit /\ [][DraftNext]_vars

\* EntSpec: applications of a student whose plan and whose free-tier limit change.
EntInit ==
  /\ FreeStudentInit
  /\ jobs = ApprovedJobs(SeqJobs)

EntNext ==
  \/ ApplyToJob
  \/ WithdrawApplication
  \/ CreateOrUpgradeSubscription
  \/ CancelSubscription
  \/ UpdateFreeTierConfig
  \/ CanApply
  \/ Reply

EntSpec == EntInit /\ [][EntNext]_vars

\* HireSpec: students apply, the admin reviews, companies hire, and canApply
\* is asked for each student.
HireNext ==
  \/ ApplyToJob
  \/ WithdrawApplication
  \/ AdminUpdateApplication
  \/ CompanyUpdateApplication
  \/ CanApply
  \/ Reply

HireSpec == Init /\ [][HireNext]_vars

(***************************************************************************)
(* ConcSpec: student requests whose store operations interleave.  A        *)
(* request arrives and performs its first store operation (Begin), then    *)
(* one store operation at a time (Continue), and leaves when its response  *)
(* is delivered (Reply).                                                   *)
(***************************************************************************)
\* out has just answered: flag the requests in flight that raced with it
Flag(x, out) ==
  IF /\ out.op = "applyToJob" /\ out.resp = "201"
     /\ x.op = "applyToJob" /\ x.pc \in {"job", "write"}
     /\ x.who = out.who /\ x.j = out.j
  THEN [x EXCEPT !.raced = TRUE] ELSE x

RECURSIVE FlagAll(_, _, _)
FlagAll(B, S, out) ==
  IF S = {} THEN EmptyBag
  ELSE LET x == CHOOSE x \in S : TRUE IN
       [e \in {Flag(x, out)} |-> B[x]] (+) FlagAll(B, S \ {x}, out)

MarkRaced(B, out) == FlagAll(B, BagToSet(B), out)

Advance(others, r) ==
  /\ CanStep(DB, r, Cardinality(AppIds) + 1)
  /\ LET out == HandlerStep(DB, r) IN
       /\ jobs' = out.db.jobs
       /\ apps' = out.db.apps
       /\ students' = out.db.students
       /\ subs' = out.db.subs
       /\ config' = out.db.config
       /\ companies' = out.db.companies
       /\ profileCache' = out.db.profileCache
       /\ UNCHANGED <<preferences, emailEnv>>
       /\ requests' = MarkRaced(others, out.req) (+) SetToBag({out.req})
       /\ UNCHANGED now

Begin(r) ==
  /\ BagCardinality(requests) < MaxInFlight
  /\ Advance(requests, r)

Continue ==
  \E r \in BagToSet(requests) :
    /\ r.pc # "done"
    /\ Advance(requests (-) SetToBag({r}), r)

ConcApplyToJob == \E s \in ConcStudents, j \in AllJobs :
  /\ s \in DOMAIN students
  /\ Begin(Request("applyToJob", s, j, NoApp, "-", NULL, TRUE))

ConcWithdrawApplication == \E s \in ConcStudents, a \in AppInputs :
  /\ s \in DOMAIN students
  /\ Begin(Request("withdrawApplication", s, NoJob, a, "-", NULL, TRUE))

\* three approved jobs, no applications yet
ConcInit ==
  /\ jobs = ApprovedJobs(AllJobs)
  /\ apps = <<>>
  /\ StudentsInit
  /\ requests = EmptyBag

ConcNext ==
  \/ ConcApplyToJob
  \/ ConcWithdrawApplication
  \/ Continue
  \/ Reply

ConcSpec == ConcInit /\ [][ConcNext]_vars

\* SubConcSpec: subscription requests of one student whose store operations
\* interleave.  The student bought a plan on day 0 for one day; it is now any
\* day up to MaxNow and nothing has read the subscription since.
ConcGetCurrentSubscription == \E s \in ConcStudents :
  /\ s \in DOMAIN students
  /\ Begin(SubscriptionRequest("getCurrentSubscription", s, "-", 0, "-"))

ConcCancelSubscription == \E s \in ConcStudents :
  /\ s \in DOMAIN students
  /\ Begin(SubscriptionRequest("cancelSubscription", s, "-", 0, "-"))

ConcUpdateSubscription == \E s \in ConcStudents, d \in ExtendByDays :
  /\ s \in DOMAIN students
  /\ Begin(SubscriptionRequest("updateSubscription", s, "-", d, "-"))

SubConcInit ==
  /\ students = [s \in ConcStudents |->
                   [isHired |-> FALSE, subscriptionTier |-> "paid",
                    currentSubscriptionId |-> "sub1"]]
  /\ subs = ("sub1" :> SubscriptionDoc("s1", "pro", 1))
  /\ config = {}
  /\ ServicesInit
  /\ now \in 0..MaxNow
  /\ jobs = <<>>
  /\ apps = <<>>
  /\ requests = EmptyBag

SubConcNext ==
  \/ ConcGetCurrentSubscription
  \/ ConcCancelSubscription
  \/ ConcUpdateSubscription
  \/ Continue
  \/ Reply

SubConcSpec == SubConcInit /\ [][SubConcNext]_vars

\* TierSpec: a student registers; the student's subscription requests and
\* the admin's assignment of a plan interleave with each other and with the
\* registration.  A request leaves with its last store operation: the
\* response is sent in the same turn of the event loop.
Proceed(others, r) ==
  /\ CanStep(DB, r, Cardinality(AppIds) + 1)
  /\ LET out == HandlerStep(DB, r) IN
       /\ jobs' = out.db.jobs
       /\ apps' = out.db.apps
       /\ students' = out.db.students
       /\ subs' = out.db.subs
       /\ config' = out.db.config
       /\ companies' = out.db.companies
       /\ profileCache' = out.db.profileCache
       /\ UNCHANGED <<preferences, emailEnv>>
       /\ requests' = IF out.req.pc = "done" THEN others
                      ELSE others (+) SetToBag({out.req})
       /\ UNCHANGED now

Arrive(r) ==
  /\ BagCardinality(requests) < MaxInFlight
  /\ Proceed(requests, r)

Resume ==
  \E r \in BagToSet(requests) : Proceed(requests (-) SetToBag({r}), r)

RegisterStudent == \E s \in ConcStudents :
  /\ s \notin DOMAIN students
  /\ \A r \in BagToSet(requests) : ~(r.op = "registerStudent" /\ r.who = s)
  /\ Arrive(SubscriptionRequest("registerStudent", s, FREE_PLAN, 0, "-"))

TierCreateOrUpgradeSubscription ==
  \E s \in ConcStudents, plan \in Plans, d \in DurationDays :
    /\ s \in DOMAIN students
    /\ Arrive(SubscriptionRequest("createOrUpgradeSubscription", s, plan, d, "-"))

TierUpdateSubscription == \E s \in ConcStudents, st \in {"cancelled", "pending"} :
  /\ s \in DOMAIN students
  /\ Arrive(SubscriptionRequest("updateSubscription", s, "-", 0, st))

TierCancelSubscription == \E s \in ConcStudents :
  /\ s \in DOMAIN students
  /\ Arrive(SubscriptionRequest("cancelSubscription", s, "-", 0, "-"))

TierGetCurrentSubscription == \E s \in ConcStudents :
  /\ s \in DOMAIN students
  /\ Arrive(SubscriptionRequest("getCurrentSubscription", s, "-", 0, "-"))

AssignStudentSubscription ==
  \E s \in ConcStudents, plan \in Plans \cup {FREE_PLAN}, d \in DurationDays :
    /\ s \in DOMAIN students
    /\ Arrive(SubscriptionRequest("assignStudentSubscription", s, plan, d, "-"))

TierInit ==
  /\ students = <<>>
  /\ subs = <<>>
  /\ config = {}
  /\ ServicesInit
  /\ now = 0
  /\ jobs = <<>>
  /\ apps = <<>>
  /\ requests = EmptyBag

TierNext ==
  \/ RegisterStudent
  \/ TierCreateOrUpgradeSubscription
  \/ TierUpdateSubscription
  \/ TierCancelSubscription
  \/ TierGetCurrentSubscription
  \/ AssignStudentSubscription
  \/ Resume

TierSpec == TierInit /\ [][TierNext]_vars

(***************************************************************************)
(* NotifySpec: the handlers that dispatch side effects, served one at a    *)
(* time, with every combination of failing channels and with requests the  *)
(* validation refuses.  The jobs start pending: the admin approves them.   *)
(***************************************************************************)
Failures == SUBSET Channels

Failing(r, f) == [r EXCEPT !.fails = f]

NotifyApplyToJob == \E s \in Students, j \in AllJobs, v \in BOOLEAN, f \in Failures :
  /\ s \in DOMAIN students
  /\ Serve(Failing(Request("applyToJob", s, j, NoApp, "-", NULL, v), f))

NotifyAdminUpdateApplication ==
  \E a \in AppInputs, st \in {"reviewed", "rejected"}, v \in BOOLEAN, f \in Failures :
    Serve(Failing(Request("adminUpdateApplication", ADMIN, NoJob, a, st,
                          IF st = "rejected" THEN AdminReason ELSE NULL, v), f))

NotifyCompanyUpdateApplication ==
  \E c \in Companies, a \in AppInputs, st \in {"hired", "rejected"}, v \in BOOLEAN,
     f \in Failures :
    Serve(Failing(Request("companyUpdateApplication", c, NoJob, a, st, NULL, v), f))

NotifyAdminUpdateJob ==
  \E j \in AllJobs, v \in BOOLEAN, f \in Failures :
    Serve(Failing(Request("adminUpdateJob", ADMIN, j, NoApp, "approved", NULL, v), f))

PendingJobs(J) == [j \in J |-> JobDoc(Owner(j), "pending")]

NotifyInit ==
  /\ jobs = PendingJobs(SeqJobs)
  /\ apps = <<>>
  /\ StudentsInit
  /\ requests = EmptyBag

NotifyNext ==
  \/ NotifyApplyToJob
  \/ NotifyAdminUpdateApplication
  \/ NotifyCompanyUpdateApplication
  \/ NotifyAdminUpdateJob
  \/ WithdrawApplication
  \/ Reply

NotifySpec == NotifyInit /\ [][NotifyNext]_vars

(***************************************************************************)
(* RaceSpec: the requests on one job and its applications, their store     *)
(* operations interleaved: the admin approves the job, the student applies *)
(* and withdraws, the admin and the company process the application, the   *)
(* company closes the job.                                                 *)
(***************************************************************************)
RaceJobs == {"j1"}

RaceAdminUpdateJob == \E j \in RaceJobs :
  Begin(Request("adminUpdateJob", ADMIN, j, NoApp, "approved", NULL, TRUE))

RaceApplyToJob == \E s \in ConcStudents, j \in RaceJobs :
  Begin(Request("applyToJob", s, j, NoApp, "-", NULL, TRUE))

RaceWithdrawApplication == \E s \in ConcStudents, a \in DOMAIN apps :
  Begin(Request("withdrawApplication", s, NoJob, a, "-", NULL, TRUE))

RaceAdminUpdateApplication == \E a \in DOMAIN apps, st \in {"reviewed", "rejected"} :
  Begin(Request("adminUpdateApplication", ADMIN, NoJob, a, st,
                IF st = "rejected" THEN AdminReason ELSE NULL, TRUE))

RaceCompanyUpdateApplication == \E a \in DOMAIN apps, st \in {"hired", "rejected"} :
  Begin(Request("companyUpdateApplication", Owner(apps[a].jobPostingId), NoJob, a, st,
                NULL, TRUE))

RaceCloseJob == \E j \in RaceJobs :
  Begin(Request("closeJob", Owner(j), j, NoApp, "-", NULL, TRUE))

RaceInit ==
  /\ jobs = PendingJobs(RaceJobs)
  /\ apps = <<>>
  /\ StudentsInit
  /\ requests = EmptyBag

RaceNext ==
  \/ RaceAdminUpdateJob
  \/ RaceApplyToJob
  \/ RaceWithdrawApplication
  \/ RaceAdminUpdateApplication
  \/ RaceCompanyUpdateApplication
  \/ RaceCloseJob
  \/ Continue
  \/ Reply

RaceSpec == RaceInit /\ [][RaceNext]_vars

(***************************************************************************)
(* QuotaSpec: one student on the free tier and three approved jobs, so     *)
(* that the store has room for one application more than the limit;        *)
(* requests served one at a time.                                          *)
(***************************************************************************)
QuotaRows == MaxRows + 1

QuotaApplyToJob == \E s \in ConcStudents, j \in AllJobs :
  ServeWithin(Request("applyToJob", s, j, NoApp, "-", NULL, TRUE), QuotaRows)

QuotaWithdrawApplication == \E s \in ConcStudents, a \in DOMAIN apps :
  Serve(Request("withdrawApplication", s, NoJob, a, "-", NULL, TRUE))

QuotaAdminUpdateApplication == \E a \in DOMAIN apps, st \in {"reviewed", "rejected"} :
  Serve(Request("adminUpdateApplication", ADMIN, NoJob, a, st,
                IF st = "rejected" THEN AdminReason ELSE NULL, TRUE))

QuotaCompanyUpdateApplication == \E a \in DOMAIN apps, st \in {"hired", "rejected"} :
  Serve(Request("companyUpdateApplication", Owner(apps[a].jobPostingId), NoJob, a, st,
                NULL, TRUE))

QuotaCloseJob == \E j \in AllJobs :
  Serve(Request("closeJob", Owner(j), j, NoApp, "-", NULL, TRUE))

QuotaInit ==
  /\ jobs = ApprovedJobs(AllJobs)
  /\ apps = <<>>
  /\ StudentsInit
  /\ requests = EmptyBag

QuotaNext ==
  \/ QuotaApplyToJob
  \/ QuotaWithdrawApplication
  \/ QuotaAdminUpdateApplication
  \/ QuotaCompanyUpdateApplication
  \/ QuotaCloseJob
  \/ Reply

QuotaSpec == QuotaInit /\ [][QuotaNext]_vars

(***************************************************************************)
(* ProfileSpec: the public profile of one company, read by anybody,        *)
(* edited by the company and approved or rejected by the admin, the awaits *)
(* of the requests interleaved, as the days pass.                          *)
(***************************************************************************)
ProfileCompanies == {"c1"}
ProfileInputs == {"p1", "p2"}
COMPANY_STATUSES == {"pending", "approved", "rejected"}

ProfileRequest(op, who, companyId, status, profile) ==
  [Request(op, who, NoJob, NoApp, status, NULL, TRUE)
     EXCEPT !.companyId = companyId, !.profile = profile]

GetPublicProfile == \E c \in ProfileCompanies :
  Begin(ProfileRequest("getPublicProfile", "-", c, "-", "-"))

UpdateProfile == \E c \in ProfileCompanies, p \in ProfileInputs :
  Begin(ProfileRequest("updateProfile", c, c, "-", p))

UpdateCompany == \E c \in ProfileCompanies, st \in COMPANY_STATUSES :
  Begin(ProfileRequest("updateCompany", ADMIN, c, st, "-"))

ProfileInit ==
  /\ jobs = <<>>
  /\ apps = <<>>
  /\ StudentsInit
  /\ requests = EmptyBag

ProfileNext ==
  \/ GetPublicProfile
  \/ UpdateProfile
  \/ UpdateCompany
  \/ Continue
  \/ Reply
  \/ Tick

ProfileSpec == ProfileInit /\ [][ProfileNext]_vars

(***************************************************************************)
(* EmailSpec: one sendEmail at a time, for every environment and stored    *)
(* preference; the provider answers each call with any outcome.  A task    *)
(* that has been scheduled keeps running (weak fairness of EmailContinue). *)
(***************************************************************************)
EmailTypes == {"application_submitted", "application_hired"}
EmailUsers == {"s1"}
Outcomes == {Ok} \cup {Failure(status) : status \in {0, 400, 401, 500}}

PreferenceKeys == {PreferenceKey(u, t, EMAIL) : u \in EmailUsers, t \in EmailTypes}

\* the stored preferences: optedOut true or false for some of the keys
PreferenceStores == UNION {[K -> BOOLEAN] : K \in SUBSET PreferenceKeys}

SendEmail ==
  \E u \in EmailUsers \cup {NULL}, t \in EmailTypes \cup {NULL}, f \in {{}, {"preferences"}} :
    /\ requests = EmptyBag
    /\ Advance(requests, [Failing(Request("sendEmail", u, NoJob, NoApp, "-", NULL, TRUE), f)
                            EXCEPT !.emailType = t])

EmailContinue ==
  \E r \in BagToSet(requests), o \in Outcomes :
    /\ r.op = "sendEmail" /\ r.pc # "done"
    /\ r.pc \notin {"deliver", "fallback"} => o = Ok
    /\ Advance(requests (-) SetToBag({r}), [r EXCEPT !.outcome = o])

EmailInit ==
  /\ jobs = <<>>
  /\ apps = <<>>
  /\ students = <<>>
  /\ subs = <<>>
  /\ config = {}
  /\ now = 0
  /\ companies = <<>>
  /\ profileCache = <<>>
  /\ preferences \in PreferenceStores
  /\ emailEnv \in [enabled : BOOLEAN, client : BOOLEAN, baseUrlSet : BOOLEAN]
  /\ requests = EmptyBag

EmailNext ==
  \/ SendEmail
  \/ EmailContinue
  \/ Reply

EmailSpec == EmailInit /\ [][EmailNext]_vars /\ WF_vars(EmailContinue)

(***************************************************************************)
(* Properties.                                                             *)
(***************************************************************************)
Answered == {r \in BagToSet(requests) : r.pc = "done"}

\* r is answered by this step
JustAnswered(r) ==
  /\ r \in BagToSet(requests')
  /\ r.pc = "done"
  /\ CopiesIn(r, requests') > CopiesIn(r, requests)

IsClose(r) ==
  \/ r.op = "closeJob"
  \/ r.op \in {"companyUpdateJob", "adminUpdateJob"} /\ r.status = "closed"

IsOpen(doc) == doc.status \in {"pending", "reviewed"}

SameStatusAndReason(a) ==
  /\ apps'[a].status = apps[a].status
  /\ apps'[a].rejectionReason = apps[a].rejectionReason

\* C1: once a job's status is closed, no company or admin job operation
\* changes its status again.
C1_ClosedIsTerminal ==
  [][\A j \in DOMAIN jobs : jobs[j].status = "closed" => jobs'[j].status = "closed"]_vars

\* C2: when a close of a job is answered with success (closeJob, company
\* updateJob with status closed, admin updateJob with status closed), every
\* application on that job that was pending or reviewed is rejected with
\* reason "Job posting has been closed".
C2_CloseRejectsOpenApplications ==
  [][\A r \in BagToSet(requests') :
       (JustAnswered(r) /\ IsClose(r) /\ r.resp = "200") =>
         \A a \in DOMAIN apps :
           (apps[a].jobPostingId = r.j /\ IsOpen(apps[a])) =>
             /\ apps'[a].status = "rejected"
             /\ apps'[a].rejectionReason = JobClosedReason]_vars

\* a close has just been answered and it rejected a pending and a reviewed
\* application on the job
C2_Witness ==
  \E r \in Answered :
    /\ IsClose(r) /\ r.resp = "200"
    /\ \E a, b \in DOMAIN apps :
         /\ apps[a].jobPostingId = r.j /\ apps[b].jobPostingId = r.j
         /\ apps[a].status = "rejected" /\ apps[b].status = "rejected"
         /\ apps[a].rejectionReason = JobClosedReason
         /\ apps[b].rejectionReason = JobClosedReason
         /\ apps[a].reviewedAt = NULL /\ apps[b].reviewedAt # NULL

\* C3: a close leaves the status and rejectionReason of every withdrawn,
\* hired or already rejected application on the job, and of every application
\* on another job, as they were; it adds and removes no application.
C3_CloseLeavesOtherApplications ==
  [][\A r \in BagToSet(requests') :
       (JustAnswered(r) /\ IsClose(r) /\ r.resp = "200") =>
         /\ DOMAIN apps' = DOMAIN apps
         /\ \A a \in DOMAIN apps :
              (apps[a].jobPostingId # r.j \/ ~IsOpen(apps[a])) => SameStatusAndReason(a)]_vars

\* a close has just been answered while the job held an application rejected
\* by the admin and another job held an open application
C3_Witness ==
  \E r \in Answered :
    /\ IsClose(r) /\ r.resp = "200"
    /\ \E a, b \in DOMAIN apps :
         /\ apps[a].jobPostingId = r.j
         /\ apps[a].status = "rejected" /\ apps[a].rejectionReason = AdminReason
         /\ apps[b].jobPostingId # r.j /\ IsOpen(apps[b])

\* C4: a company updateApplication (hired or rejected) on a pending
\* application is refused (400 for the owning company) and changes neither
\* the applications nor the students; by the owning company on a reviewed
\* application it succeeds and sets the requested status.
C4_CompanyActsOnReviewedOnly ==
  [][\A r \in BagToSet(requests') :
       (JustAnswered(r) /\ r.op = "companyUpdateApplication" /\ r.a \in DOMAIN apps) =>
         LET owner == jobs[apps[r.a].jobPostingId].companyId = r.who IN
         /\ apps[r.a].status = "pending" =>
              /\ r.resp = (IF owner THEN "400 not reviewed" ELSE "403 not yours")
              /\ apps' = apps
              /\ students' = students
         /\ (apps[r.a].status = "reviewed" /\ owner) =>
              /\ r.resp = "200"
              /\ apps'[r.a].status = r.status]_vars

\* the owning company has just been refused on an application that is pending
C4_Witness ==
  \E r \in Answered :
    /\ r.op = "companyUpdateApplication" /\ r.resp = "400 not reviewed"
    /\ r.status = "hired"
    /\ apps[r.a].status = "pending"
    /\ ~students[apps[r.a].studentId].isHired

\* C5: when two applyToJob requests of a student under the limit of 2, for
\* two different jobs, were both admitted with one slot left (each counted
\* limit - 1 used applications) and both are answered, the student has no
\* more counted applications than the limit.
C5_QuotaHoldsUnderConcurrentApply ==
  \A r1, r2 \in Answered :
    ( /\ r1.op = "applyToJob" /\ r2.op = "applyToJob"
      /\ r1.who = r2.who /\ r1.j # r2.j
      /\ r1.tier # "paid" /\ r2.tier # "paid"
      /\ r1.count = HardCodedLimit - 1 /\ r2.count = HardCodedLimit - 1 )
    => getActiveApplicationCount(apps, r1.who) <= HardCodedLimit

\* C6: of two concurrent applyToJob requests of one student for one job at
\* most one is answered 201: no applyToJob is answered 201 when another one
\* for the same student and job was answered 201 since it looked the
\* existing application up.
C6_OneOfTwoConcurrentAppliesSucceeds ==
  \A r \in Answered : (r.op = "applyToJob" /\ r.resp = "201") => ~r.raced

\* C7: the store never holds two application rows for one
\* (studentId, jobPostingId) pair.
C7_OneRowPerStudentAndJob ==
  \A s \in Students, j \in AllJobs : Cardinality(RowsOf(apps, s, j)) <= 1

\* two applyToJob requests raced to create the row of one pair: one created
\* it, the other was refused by the unique index
C7_Witness ==
  \E r1, r2 \in Answered :
    /\ r1.op = "applyToJob" /\ r1.resp = "500"
    /\ r2.op = "applyToJob" /\ r2.resp = "201" /\ r2.who = r1.who /\ r2.j = r1.j
    /\ Cardinality(RowsOf(apps, r1.who, r1.j)) = 1

HasLiveRow(s, j) ==
  \E a \in RowsOf(apps, s, j) : apps[a].status # "withdrawn"

\* C8 as claimed: an applyToJob on a job for which the student has an
\* application that is not withdrawn is answered with the conflict error and
\* changes no application.
C8_DuplicateApplyIsConflict ==
  [][\A r \in BagToSet(requests') :
       (JustAnswered(r) /\ r.op = "applyToJob" /\ HasLiveRow(r.who, r.j)) =>
         /\ r.resp = "400 already applied"
         /\ apps' = apps]_vars

\* C8 amended: such an applyToJob is always refused and changes no
\* application; the refusal is the conflict error unless the hired check or
\* the application-limit check, which come first, refuse it.
C8_DuplicateApplyIsRefused ==
  [][\A r \in BagToSet(requests') :
       (JustAnswered(r) /\ r.op = "applyToJob" /\ HasLiveRow(r.who, r.j)) =>
         /\ apps' = apps
         /\ r.resp = (IF students[r.who].isHired THEN "403 hired"
                      ELSE IF /\ students[r.who].subscriptionTier # "paid"
                              /\ activeApplications(apps, r.who) >= HardCodedLimit
                      THEN "403 limit"
                      ELSE "400 already applied")]_vars

\* an applyToJob has just been answered with the conflict error, on a job
\* where the student's application was rejected
C8_Witness ==
  \E r \in Answered :
    /\ r.op = "applyToJob" /\ r.resp = "400 already applied"
    /\ \E a \in RowsOf(apps, r.who, r.j) : apps[a].status = "rejected"

\* C9: a successful applyToJob on a job for which the student has a withdrawn
\* application resets that row to pending with rejectionReason and reviewedAt
\* null, adds no row, and the row counts again toward the student's used
\* applications.
C9_ReapplyResetsTheRow ==
  [][\A r \in BagToSet(requests') :
       ( /\ JustAnswered(r) /\ r.op = "applyToJob" /\ r.resp = "201"
         /\ \E a \in RowsOf(apps, r.who, r.j) : apps[a].status = "withdrawn" ) =>
         LET e == FindOneApplication(apps, r.who, r.j) IN
         /\ DOMAIN apps' = DOMAIN apps
         /\ apps'[e].status = "pending"
         /\ apps'[e].rejectionReason = NULL
         /\ apps'[e].reviewedAt = NULL
         /\ getActiveApplicationCount(apps', r.who)
              = getActiveApplicationCount(apps, r.who) + 1]_vars

\* a re-application has just been answered 201
C9_Witness ==
  \E r \in Answered :
    /\ r.op = "applyToJob" /\ r.resp = "201" /\ r.existing # NoApp
    /\ apps[r.existing].status = "pending"
    /\ getActiveApplicationCount(apps, r.who) = HardCodedLimit

CountedStatuses == {"pending", "reviewed", "hired"}

\* C10: the used-application count of a student, as getActiveApplicationCount
\* and as applyToJob compute it, is the number of the student's applications
\* whose status is pending, reviewed or hired.
C10_UsedCountsPendingReviewedHired ==
  \A s \in Students :
    LET counted == Cardinality({a \in DOMAIN apps :
                       apps[a].studentId = s /\ apps[a].status \in CountedStatuses})
    IN /\ getActiveApplicationCount(apps, s) = counted
       /\ activeApplications(apps, s) = counted

\* a student has a rejected application, which is not counted, and a hired
\* one, which is
C10_Witness ==
  \E s \in Students :
    /\ \E a \in DOMAIN apps : apps[a].studentId = s /\ apps[a].status = "rejected"
    /\ \E a \in DOMAIN apps : apps[a].studentId = s /\ apps[a].status = "hired"
    /\ getActiveApplicationCount(apps, s) = 1

\* the student's applications that are pending, reviewed or hired
Used(s) ==
  Cardinality({a \in DOMAIN apps : apps[a].studentId = s /\ apps[a].status \in CountedStatuses})

\* C11: for a student who is not hired and whose limit is finite, canApply
\* allows iff used < limit, reporting used and limit; otherwise it denies
\* with reason limit, used and limit.
C11_CanApplyAllowsBelowTheLimit ==
  [][\A r \in BagToSet(requests') :
       ( /\ JustAnswered(r) /\ r.op = "canApply"
         /\ ~students[r.who].isHired
         /\ getApplicationLimit(DB, r.who) # Infinity ) =>
         LET limit == getApplicationLimit(DB, r.who) IN
         /\ r.result.canApply = (Used(r.who) < limit)
         /\ r.result.applicationsUsed = Used(r.who)
         /\ r.result.applicationLimit = limit
         /\ r.result.reason = (IF Used(r.who) < limit THEN "-" ELSE "limit")]_vars

\* with limit 2 the student had two pending applications, withdrew one, and
\* canApply has just allowed with used 1
C11_Witness ==
  \E r \in Answered :
    /\ r.op = "canApply" /\ r.result.canApply
    /\ r.result.applicationsUsed = 1 /\ r.result.applicationLimit = 2
    /\ \E a, b \in DOMAIN apps :
         /\ apps[a].studentId = r.who /\ apps[a].status = "withdrawn"
         /\ apps[b].studentId = r.who /\ apps[b].status = "pending"

\* C12: applyToJob is refused by its hired / limit check exactly when
\* canApply does not allow the student.
C12_ApplyToJobAdmitsAsCanApply ==
  [][\A r \in BagToSet(requests') :
       (JustAnswered(r) /\ r.op = "applyToJob") =>
         ((r.resp \in {"403 hired", "403 limit"}) <=> ~canApply(DB, r.who).canApply)]_vars

\* what the plan of subscription doc allows: its maxApplications, or no limit
PlanLimit(doc) ==
  IF PlanMaxApplications[doc.serviceId] = {} THEN Infinity
  ELSE CHOOSE v \in PlanMaxApplications[doc.serviceId] : TRUE

\* C13: getApplicationLimit returns the limit of the plan while the
\* student's current subscription is active (grace included), and the
\* free-tier default when it is not active.
C13_PlanLimitOnlyWhileActive ==
  [][\A r \in BagToSet(requests') :
       ( /\ JustAnswered(r) /\ r.op = "getApplicationLimit"
         /\ students[r.who].currentSubscriptionId # NULL ) =>
         LET doc == subs[students[r.who].currentSubscriptionId] IN
         r.result.applicationLimit =
           (IF IsActive(doc.status, doc.endDate, now)
            THEN PlanLimit(doc) ELSE getFreeTierMaxApplications(DB))]_vars

\* C14: for a current subscription with status active,
\* checkSubscriptionStatus returns inGracePeriod iff endDate < now <=
\* endDate + 3 days, and isActive iff endDate >= now or inGracePeriod.
C14_GracePeriodOfThreeDays ==
  [][\A r \in BagToSet(requests') :
       ( /\ JustAnswered(r) /\ r.op = "getCurrentSubscription"
         /\ students[r.who].currentSubscriptionId # NULL
         /\ subs[students[r.who].currentSubscriptionId].status = "active" ) =>
         LET endDate == subs[students[r.who].currentSubscriptionId].endDate
             grace == endDate < now /\ now <= endDate + 3
         IN /\ r.result.inGracePeriod = grace
            /\ r.result.isActive = (endDate >= now \/ grace)]_vars

\* the subscription ended yesterday: in grace and active
C14_Witness ==
  \E r \in Answered :
    /\ r.op = "getCurrentSubscription"
    /\ r.seen.status = "active" /\ r.seen.endDate = now - 1
    /\ r.result.inGracePeriod /\ r.result.isActive

\* C15: when checkSubscriptionStatus reads a subscription whose status is
\* cancelled, it returns status cancelled, isActive false and inGracePeriod
\* false whatever endDate and now are, and writes nothing.
C15_CancelledIsNeverActive ==
  [][\A r \in BagToSet(requests') :
       ( /\ JustAnswered(r) /\ r.op = "getCurrentSubscription"
         /\ r.seen.status = "cancelled" ) =>
         /\ r.result.status = "cancelled"
         /\ ~r.result.isActive
         /\ ~r.result.inGracePeriod
         /\ subs' = subs
         /\ students' = students]_vars

\* a cancelled subscription has just been read during its grace days
C15_Witness ==
  \E r \in Answered :
    /\ r.op = "getCurrentSubscription"
    /\ r.seen.status = "cancelled"
    /\ r.seen.endDate < now /\ now <= r.seen.endDate + 3
    /\ subs[r.sub].status = "cancelled"

\* C16: a checkSubscriptionStatus of a current subscription that is not
\* active, not cancelled, not expired and whose endDate < now sets its status
\* to expired and reports expired; any other one leaves the subscriptions as
\* they were.
C16_LazyExpiry ==
  [][\A r \in BagToSet(requests') :
       (JustAnswered(r) /\ r.op = "getCurrentSubscription") =>
         LET cur == students[r.who].currentSubscriptionId IN
         IF /\ cur # NULL
            /\ subs[cur].status \notin {"cancelled", "expired"}
            /\ ~( subs[cur].status = "active"
                   /\ now <= subs[cur].endDate + SUBSCRIPTION_GRACE_PERIOD_DAYS )
            /\ subs[cur].endDate < now
         THEN /\ subs' = [subs EXCEPT ![cur].status = "expired"]
              /\ r.result.status = "expired"
         ELSE subs' = subs]_vars

\* an active subscription that ended more than 3 days ago has just been read
\* and is now expired
C16_Witness ==
  \E r \in Answered :
    /\ r.op = "getCurrentSubscription"
    /\ r.seen.status = "active" /\ r.seen.endDate + 3 < now
    /\ r.result.status = "expired"
    /\ subs[r.sub].status = "expired"

\* C17: under any interleaving of checkSubscriptionStatus, cancelSubscription
\* and updateSubscription, a status only becomes expired from a status that is
\* not cancelled and on a subscription whose endDate has passed.
C17_LazyExpiryIsSafeToRace ==
  [][\A id \in DOMAIN subs :
       (subs'[id].status = "expired" /\ subs[id].status # "expired") =>
         /\ subs[id].status # "cancelled"
         /\ subs[id].endDate < now]_vars

\* the title a submit ends with: the one of the body, trimmed, or the stored one
SubmittedTitle(r) ==
  IF r.body.title.raw = UNDEFINED THEN jobs[r.j].content.title ELSE r.body.title.len

validateWithdrawal(status) == status \in {"pending", "reviewed"}

\* C19: a withdrawApplication by the owning student sets status withdrawn
\* iff the status is pending or reviewed (as validateWithdrawal allows); on a
\* hired, rejected or withdrawn application it is refused and changes nothing.
C19_WithdrawFromPendingOrReviewed ==
  [][\A r \in BagToSet(requests') :
       ( /\ JustAnswered(r) /\ r.op = "withdrawApplication"
         /\ r.a \in DOMAIN apps /\ apps[r.a].studentId = r.who ) =>
         /\ validateWithdrawal(apps[r.a].status) = (apps[r.a].status \in {"pending", "reviewed"})
         /\ IF apps[r.a].status \in {"pending", "reviewed"}
            THEN /\ r.resp = "200"
                 /\ apps' = [apps EXCEPT ![r.a].status = "withdrawn"]
            ELSE /\ r.resp \in {"400 already withdrawn", "400 hired", "400 rejected"}
                 /\ apps' = apps]_vars

\* a withdrawal of a rejected application has just been refused
C19_Witness ==
  \E r \in Answered :
    /\ r.op = "withdrawApplication" /\ r.resp = "400 rejected"
    /\ apps[r.a].status = "rejected"

\* C20: an admin updateApplication succeeds only on a pending application; on
\* a reviewed, rejected, withdrawn or hired one it is refused and changes
\* nothing.
C20_AdminActsOnPendingOnly ==
  [][\A r \in BagToSet(requests') :
       ( /\ JustAnswered(r) /\ r.op = "adminUpdateApplication"
         /\ r.a \in DOMAIN apps /\ apps[r.a].status # "pending" ) =>
         /\ r.resp # "200"
         /\ apps' = apps]_vars

\* C21: after an admin updateApplication with status rejected has succeeded,
\* the application's reviewedAt is null and the application does not match
\* the filter of the company's application list.
C21_AdminRejectionIsInvisible ==
  [][\A r \in BagToSet(requests') :
       ( /\ JustAnswered(r) /\ r.op = "adminUpdateApplication"
         /\ r.status = "rejected" /\ r.resp = "200" ) =>
         /\ apps'[r.a].reviewedAt = NULL
         /\ ~CompanyVisible(apps'[r.a])]_vars

\* C22: after a company updateApplication with status hired has succeeded,
\* the application is hired and its student's isHired is true; one with
\* status rejected leaves every student as it was.
C22_HireSetsIsHired ==
  [][\A r \in BagToSet(requests') :
       ( /\ JustAnswered(r) /\ r.op = "companyUpdateApplication"
         /\ r.resp = "200" ) =>
         IF r.status = "hired"
         THEN /\ apps'[r.a].status = "hired"
              /\ students'[apps[r.a].studentId].isHired
         ELSE /\ apps'[r.a].status = "rejected"
              /\ students' = students]_vars

\* a hire has just succeeded and the student is hired
C22_Witness ==
  \E r \in Answered :
    /\ r.op = "companyUpdateApplication" /\ r.status = "hired" /\ r.resp = "200"
    /\ apps[r.a].status = "hired"
    /\ students[apps[r.a].studentId].isHired

\* C23: a successful company hire changes no application but the hired one:
\* every other application keeps its status, rejectionReason and reviewedAt.
C23_HireLeavesOtherApplications ==
  [][\A r \in BagToSet(requests') :
       ( /\ JustAnswered(r) /\ r.op = "companyUpdateApplication"
         /\ r.status = "hired" /\ r.resp = "200" ) =>
         /\ DOMAIN apps' = DOMAIN apps
         /\ \A b \in DOMAIN apps \ {r.a} : apps'[b] = apps[b]]_vars

\* a hire has just succeeded for a student who has another application that
\* is still pending or reviewed
C23_Witness ==
  \E r \in Answered :
    /\ r.op = "companyUpdateApplication" /\ r.status = "hired" /\ r.resp = "200"
    /\ \E b \in DOMAIN apps \ {r.a} :
         /\ apps[b].studentId = apps[r.a].studentId
         /\ apps[b].status \in {"pending", "reviewed"}

\* C24: for a student whose isHired is true, canApply returns not allowed
\* with reason hired, and applyToJob is refused and leaves every application
\* as it was.
C24_HiredStudentIsRefused ==
  [][\A r \in BagToSet(requests') :
       ( /\ JustAnswered(r) /\ r.op \in {"canApply", "applyToJob"}
         /\ students[r.who].isHired ) =>
         IF r.op = "canApply"
         THEN ~r.result.canApply /\ r.result.reason = "hired"
         ELSE r.resp = "403 hired" /\ apps' = apps]_vars

\* a hired student has just been refused an application to a job they had
\* withdrawn from
C24_Witness ==
  \E r \in Answered :
    /\ r.op = "applyToJob" /\ r.resp = "403 hired"
    /\ students[r.who].isHired
    /\ \E a \in DOMAIN apps :
         /\ apps[a].studentId = r.who /\ apps[a].jobPostingId = r.j
         /\ apps[a].status = "withdrawn"

\* the changes of status the admin may make to a job
AdminJobTransitions ==
  {<<"pending", "approved">>, <<"pending", "rejected">>,
   <<"approved", "closed">>, <<"unpublished", "closed">>, <<"pending", "closed">>}

\* C25: an admin updateJob changes a job's status only along pending ->
\* approved, pending -> rejected or {approved, unpublished, pending} ->
\* closed; any other request is refused and leaves the job as it was.
C25_AdminJobTransitionsAreGuarded ==
  [][\A r \in BagToSet(requests') :
       ( /\ JustAnswered(r) /\ r.op = "adminUpdateJob" /\ r.j \in DOMAIN jobs
         /\ <<jobs[r.j].status, r.status>> \notin AdminJobTransitions ) =>
         /\ r.resp # "200"
         /\ jobs' = jobs]_vars

\* C26: in every reachable state an approved job has approvedAt set, and a
\* pending or rejected job has approvedAt = null.
C26_ApprovedAtFollowsStatus ==
  \A j \in DOMAIN jobs :
    /\ jobs[j].status = "approved" => jobs[j].approvedAt # NULL
    /\ jobs[j].status \in {"pending", "rejected"} => jobs[j].approvedAt = NULL

\* C27: in every reachable state an application whose reviewedAt is not
\* null has status reviewed, hired or rejected: a pending or withdrawn
\* application has reviewedAt = null.
C27_ReviewedAtOnlyOnceReviewed ==
  \A a \in DOMAIN apps :
    apps[a].reviewedAt # NULL => apps[a].status \in {"reviewed", "hired", "rejected"}

\* C28: in every reachable state, under any interleaving of registration,
\* the subscription requests, the admin's assignment and the reads, a student
\* whose currentSubscriptionId is null has subscriptionTier free.
C28_NoSubscriptionMeansFreeTier ==
  \A s \in DOMAIN students :
    students[s].currentSubscriptionId = NULL => students[s].subscriptionTier = "free"

\* a cancellation has cleared a student while a subscription to a paid plan
\* that a concurrent request created for them is active
C28_Witness ==
  \E s \in DOMAIN students :
    /\ students[s].currentSubscriptionId = NULL
    /\ \E id \in DOMAIN subs :
         /\ subs[id].studentId = s /\ subs[id].status = "active"
         /\ PlanTier(subs[id].serviceId) = "paid"
    /\ \E id \in DOMAIN subs : subs[id].studentId = s /\ subs[id].status = "cancelled"

\* the request r as it arrived, with no channel failing
Unfailing(r) ==
  Failing(Request(r.op, r.who, r.j, r.a, r.status, r.reason, r.valid), {})

DispatchingOps ==
  {"applyToJob", "adminUpdateApplication", "companyUpdateApplication", "adminUpdateJob"}

\* C29: for an apply, an admin review or rejection of an application, a
\* company hire or rejection and an admin job approval, whichever channels
\* (notification creation, email sending) fail, the store after the request
\* and the response are those of the same request with no failure: nothing
\* is rethrown to the request path.
C29_DispatchFailuresAreSwallowed ==
  [][\A r \in BagToSet(requests') :
       (JustAnswered(r) /\ r.op \in DispatchingOps) =>
         LET twin == Run(DB, Unfailing(r)) IN
         /\ jobs' = twin.db.jobs
         /\ apps' = twin.db.apps
         /\ students' = twin.db.students
         /\ subs' = twin.db.subs
         /\ r.resp = twin.req.resp
         /\ r.sent = {e \in twin.req.sent : e[1] \notin r.fails}]_vars

\* a hire has just been answered 200 and is stored, while the email and the
\* notification of it both failed
C29_Witness ==
  \E r \in Answered :
    /\ r.op = "companyUpdateApplication" /\ r.status = "hired"
    /\ r.fails = Channels /\ r.sent = {}
    /\ r.resp = "200"
    /\ apps[r.a].status = "hired"
    /\ students[apps[r.a].studentId].isHired

Rejected(r) == r.resp \notin {"200", "201"}

OptedOut(r) ==
  /\ r.who # NULL /\ r.emailType # NULL
  /\ PreferenceKey(r.who, r.emailType, EMAIL) \in DOMAIN preferences
  /\ preferences[PreferenceKey(r.who, r.emailType, EMAIL)] = TRUE

\* C31: a sendEmail for a recipient whose stored preference for the userId,
\* the email's type and the email channel has optedOut = true calls the
\* provider not once and resolves as skipped with reason opted_out.
C31_OptedOutIsSkipped ==
  [][\A r \in BagToSet(requests') :
       (JustAnswered(r) /\ r.op = "sendEmail" /\ OptedOut(r)) =>
         /\ r.calls = 0
         /\ r.resp = "skipped"
         /\ r.mail.skipped /\ r.mail.reason = "opted_out"]_vars

Last(t) == t[Len(t)]

\* one executeWithRetry called fn() at most MAX_RETRIES times, and again
\* only after an error that is not one of 400, 401, 403, 404, 422
BoundedRetries(t) ==
  /\ Len(t) >= 1 /\ Len(t) <= 3
  /\ \A k \in 1..(Len(t) - 1) :
       ~t[k].ok /\ t[k].status \notin {400, 401, 403, 404, 422}

\* C32: whatever the provider answers, each executeWithRetry of a sendEmail
\* calls the delivery function at most 3 times, never again after a success
\* or an error with status 400, 401, 403, 404 or 422, and the send ends with
\* the result of the last call: sent if it succeeded, the last error
\* otherwise; and every send that has started ends.
C32_RetriesAreBounded ==
  /\ [][\A r \in BagToSet(requests') :
          (JustAnswered(r) /\ r.op = "sendEmail" /\ r.retried # <<>>) =>
            /\ \A i \in DOMAIN r.retried : BoundedRetries(r.retried[i])
            /\ LET last == Last(Last(r.retried)) IN
               IF last.ok THEN r.resp = "sent" /\ r.mail.success
               ELSE /\ r.resp = "thrown" /\ r.mail.thrown
                    /\ r.mail.error = last.status]_vars
  /\ (requests # EmptyBag) ~> (\E r \in BagToSet(requests) : r.pc = "done")

\* a send has just been rejected after three calls that failed with errors
\* worth a retry
C32_Witness ==
  \E r \in Answered :
    /\ r.op = "sendEmail" /\ r.resp = "thrown"
    /\ Len(r.retried) = 1 /\ Len(r.retried[1]) = 3
    /\ r.mail.error = 500

\* C33: once an application is hired its status never changes, whatever
\* withdrawApplication, admin or company updateApplication or close of the
\* job runs concurrently or later.
C33_HiredIsTerminal ==
  [][\A a \in DOMAIN apps : apps[a].status = "hired" => apps'[a].status = "hired"]_vars

\* C34: a withdrawn application leaves the status withdrawn only for
\* pending: a company or admin updateApplication racing with the withdrawal
\* never turns it hired, rejected or reviewed.
C34_WithdrawnLeavesOnlyByReapplying ==
  [][\A a \in DOMAIN apps :
       apps[a].status = "withdrawn" => apps'[a].status \in {"withdrawn", "pending"}]_vars

CloseInProgress(j) ==
  \E r \in BagToSet(requests) : IsClose(r) /\ r.j = j /\ r.pc # "done"

\* C35: whenever a job is closed and no close of it is in progress, none of
\* its applications is pending or reviewed.
C35_ClosedJobHasNoOpenApplication ==
  \A j \in DOMAIN jobs :
    (jobs[j].status = "closed" /\ ~CloseInProgress(j)) =>
      \A a \in DOMAIN apps : apps[a].jobPostingId = j => ~IsOpen(apps[a])

\* C36: an admin updateJob with status approved dispatches notifyJobApproved
\* exactly when its write takes the job into approved: not on a job that is
\* approved already, and once for two concurrent approvals of a pending job.
C36_JobApprovedIsNotifiedOnce ==
  [][\A r \in BagToSet(requests') :
       ( /\ JustAnswered(r) /\ r.op = "adminUpdateJob" /\ r.status = "approved"
         /\ r.resp = "200" ) =>
         (r.sent = JobApproved) = (jobs[r.j].status # "approved")]_vars

\* the admin has just marked application a reviewed
JustReviewed(a) ==
  \E r \in BagToSet(requests') :
    /\ JustAnswered(r) /\ r.op = "adminUpdateApplication"
    /\ r.a = a /\ r.status = "reviewed" /\ r.resp = "200"

\* C37: reviewedAt is null after a creation or re-application and becomes
\* non-null only in the step in which an admin marks the application
\* reviewed, so an application that matches the filter of the company's
\* lists (status reviewed, hired or rejected and reviewedAt not null) was
\* reviewed by an admin since it was created or last re-applied for.
C37_VisibleMeansReviewedThisCycle ==
  [][/\ \A a \in DOMAIN apps' :
          CompanyVisible(apps'[a]) =>
            \/ a \in DOMAIN apps /\ apps[a].reviewedAt # NULL
            \/ JustReviewed(a)
     /\ \A r \in BagToSet(requests') :
          (JustAnswered(r) /\ r.op = "applyToJob" /\ r.resp = "201") =>
            \A a \in RowsOf(apps', r.who, r.j) :
              apps'[a].status = "pending" => apps'[a].reviewedAt = NULL]_vars

\* C38: with requests served one at a time, a student on the free tier who
\* is not hired never has more than the limit of 2 applications that are
\* pending, reviewed or hired.
C38_CountStaysWithinTheLimit ==
  \A s \in DOMAIN students :
    (~students[s].isHired /\ students[s].subscriptionTier # "paid") =>
      Used(s) <= HardCodedLimit

\* C39: a getPublicProfile answered with a profile is for a company whose
\* status is approved when it is answered from the cache, as it is when it
\* is answered from the store: after the admin has changed the status away
\* from approved no getPublicProfile that starts returns the profile.
C39_PublicProfileOnlyWhileApproved ==
  [][\A r \in BagToSet(requests') :
       (JustAnswered(r) /\ r.op = "getPublicProfile" /\ r.resp = "200") =>
         IF r.cached THEN companies[r.companyId].status = "approved"
         ELSE r.company.status = "approved"]_vars

UpdateInProgress(c) ==
  \E u \in BagToSet(requests) : u.op = "updateProfile" /\ u.who = c /\ u.pc # "done"

\* C40: a getPublicProfile that is answered from the cache while no profile
\* update of the company is in progress returns the stored profile: once an
\* update has completed, every getPublicProfile that starts returns the
\* updated profile, whatever other getPublicProfile was in flight.
C40_PublicProfileIsFreshAfterUpdate ==
  [][\A r \in BagToSet(requests') :
       ( /\ JustAnswered(r) /\ r.op = "getPublicProfile" /\ r.resp = "200"
         /\ r.cached /\ ~UpdateInProgress(r.companyId) ) =>
         r.profile = companies[r.companyId].profile]_vars

====
